---- MODULE Spec2Model ----
(***************************************************************************)
(* SelfObserver: the behaviour pipeline (behavior_model.py,                *)
(* behavior_digital_twin.py, time_series_forecasting.py) and the           *)
(* incremental twin state store (update_state_with_entry).                 *)
(*                                                                         *)
(* The specifications share the variables:                                 *)
(*   Spec        the batch pipeline: analyze_behaviors, then               *)
(*               forecast_next_hour and build_digital_twin on one batch    *)
(*   SpecCluster cluster_embeddings under every combination of backends    *)
(*   SpecStore   update_state_with_entry called by one producer, one call  *)
(*               after the other                                           *)
(*   SpecConc    two overlapping update_state_with_entry calls and a       *)
(*               reader of the state file, at the grain of file operations *)
(*   SpecRestart update_state_with_entry with restarts of the producer      *)
(*   SpecUnordered the batch pipeline on batches that are not in time order *)
(*   SpecRerun   the batch pipeline run twice on the same list              *)
(*   SpecCalls   derive_signals and label_clusters called on their own      *)
(*   SpecTwin    build_digital_twin from line 211 on, on given features     *)
(*   SpecMemo    the batch pipeline on observations that come with an       *)
(*               embedding attached, as daily_report.py reads them          *)
(*                                                                         *)
(* Python floats are modelled as exact rationals [n, d] in lowest terms.   *)
(* Python dicts and Counters are modelled as sequences of [k, v] pairs in  *)
(* insertion order (max(d, key=d.get) depends on that order).              *)
(***************************************************************************)
EXTENDS Integers, Sequences, FiniteSets, TLC

VARIABLES
    \* ---- batch pipeline
    entries,      \* the observation batch (list of dicts), embeddings memoized
    backends,     \* what each optional clustering backend does when tried
    analysis,     \* the analysis dict handed to the forecasters, or NoResult
    forecast,     \* result of forecast_next_hour, or NoResult
    twin,         \* result of build_digital_twin, or NoResult
    earlier,      \* what an earlier run of the pipeline returned, or NoResult
    \* ---- state store
    file,         \* content of logs/digital_twin_state.json
    history,      \* the calls made so far: [entry, hour, io, raised, pid]
    origin,       \* the file as it was before the first call
    pid,          \* how often the producer process was restarted
    \* ---- overlapping calls on the state file
    wpc,          \* per call: position in update_state_with_entry
    wstate,       \* per call: its local `state` dict
    wentry,       \* per call: the entry it was given
    woff,         \* per call: tokens already written through its handle
    seen,         \* what the reader got from its reads of the file
    \* ---- one function called on its own
    call,         \* the arguments of the call, or NoResult
    result        \* [value |-> what the call returned], or NoResult

batchVars == <<entries, backends, analysis, forecast, twin, earlier>>
storeVars == <<file, history, origin, pid>>
concVars  == <<wpc, wstate, wentry, woff, seen>>
callVars  == <<call, result>>
vars      == <<entries, backends, analysis, forecast, twin, earlier,
               file, history, origin, pid, wpc, wstate, wentry, woff, seen,
               call, result>>

NoResult == [none |-> TRUE]
\* Optional values: None is the empty tuple, a present value x is <<x>>.
None == <<>>
Some(x) == <<x>>

(***************************************************************************)
(* Bounds of the model.                                                    *)
(***************************************************************************)
MaxLen == 3          \* observations in a batch
MaxUpdates == 3      \* sequential calls of update_state_with_entry

(***************************************************************************)
(* Python float arithmetic, exact: [n |-> numerator, d |-> denominator>0]. *)
(***************************************************************************)
RECURSIVE GCD(_, _)
GCD(a, b) == IF b = 0 THEN a ELSE GCD(b, a % b)

Abs(x) == IF x < 0 THEN -x ELSE x

Reduced(n, d, g) == [n |-> n \div g, d |-> d \div g]
R(n, d) == Reduced(n, d, GCD(Abs(n), d))

RInt(i) == [n |-> i, d |-> 1]
\* Factors are cancelled before multiplying, to keep the integers small.
\* Every value is kept in lowest terms, so equal denominators and whole
\* numbers need no cancelling.
RAddOver(a, b, g) == R(a.n * (b.d \div g) + b.n * (a.d \div g), (a.d \div g) * b.d)
RAdd(a, b) ==
    IF a.n = 0 THEN b
    ELSE IF b.n = 0 THEN a
    ELSE IF a.d = b.d THEN R(a.n + b.n, a.d)
    ELSE RAddOver(a, b, GCD(a.d, b.d))
RNeg(a)    == [n |-> -a.n, d |-> a.d]
RSub(a, b) == RAdd(a, RNeg(b))
RMulOver(a, b, g1, g2) ==
    [n |-> (a.n \div g1) * (b.n \div g2), d |-> (a.d \div g2) * (b.d \div g1)]
RMul(a, b) ==
    IF a.d = 1 /\ b.d = 1 THEN RInt(a.n * b.n)
    ELSE RMulOver(a, b, GCD(Abs(a.n), b.d), GCD(Abs(b.n), a.d))
RLtOver(a, b, g) == a.n * (b.d \div g) < b.n * (a.d \div g)
RLt(a, b) ==
    IF a.d = b.d THEN a.n < b.n
    ELSE RLtOver(a, b, GCD(a.d, b.d))
RLe(a, b)  == ~RLt(b, a)
RMin(a, b) == IF RLe(a, b) THEN a ELSE b
RMax(a, b) == IF RLe(b, a) THEN a ELSE b
\* a / b for b > 0
RDiv(a, b) == RMul(a, [n |-> b.d, d |-> b.n])

RZero == RInt(0)
ROne  == RInt(1)

(***************************************************************************)
(* dict / Counter: a sequence of [k, v] in insertion order.                *)
(***************************************************************************)
DKeys(d) == {d[i].k : i \in 1..Len(d)}
DHas(d, key) == \E i \in 1..Len(d) : d[i].k = key
DGet(d, key, default) ==
    IF DHas(d, key)
    THEN d[CHOOSE i \in 1..Len(d) : d[i].k = key].v
    ELSE default
\* d[key] = v
DSet(d, key, v) ==
    IF DHas(d, key)
    THEN [i \in 1..Len(d) |-> IF d[i].k = key THEN [k |-> key, v |-> v] ELSE d[i]]
    ELSE Append(d, [k |-> key, v |-> v])
\* Counter: d[key] += 1 (missing keys count 0)
CInc(d, key) == DSet(d, key, DGet(d, key, 0) + 1)
\* Counter of floats: d[key] += w
CAddR(d, key, w) == DSet(d, key, RAdd(DGet(d, key, RZero), w))

RECURSIVE SumInt(_)
SumInt(d) == IF d = <<>> THEN 0 ELSE d[1].v + SumInt(Tail(d))
RECURSIVE SumR(_)
SumR(d) == IF d = <<>> THEN RZero ELSE RAdd(d[1].v, SumR(Tail(d)))

\* max(d, key=d.get): the first key, in insertion order, whose value is maximal
ArgMax(d) ==
    LET i == CHOOSE i \in 1..Len(d) :
                 /\ \A j \in 1..Len(d) : RLe(d[j].v, d[i].v)
                 /\ \A j \in 1..(i-1) : RLt(d[j].v, d[i].v)
    IN  d[i].k

(***************************************************************************)
(* behavior_model.py                                                       *)
(***************************************************************************)
SEGMENT_SIZE == 128
SEGMENTS == [intention |-> 0, context |-> 1, cognitive |-> 2, emotional |-> 3,
             dopamine_goal |-> 4, app_semantics |-> 5]
EMBEDDING_SIZE == SEGMENT_SIZE * Cardinality(DOMAIN SEGMENTS)

\* The words the modelled observations are made of. A word is a maximal run
\* of characters without whitespace, "/", "\" or "_", as _tokenize splits it.
Lower(w) ==
    CASE w = "YouTube"  -> "youtube"
      [] w = "Code.exe" -> "code.exe"
      [] OTHER          -> w

\* The cue sets, cut down to the words of the model.
DOPAMINE_CUES   == {"youtube", "video", "browsing", "game"}
GOAL_CUES       == {"code", "work", "debug"}
COGNITIVE_HEAVY == {"debug"}
EMOTIONAL_POS   == {"great"}
EMOTIONAL_NEG   == {"error"}

\* hashlib.sha256(f"{segment}:{token}")[:4] % SEGMENT_SIZE, tabulated from
\* the program for the tokens of the model.
_hash(token, segment) ==
    CASE segment = 0 ->
           (CASE token = "youtube" -> 32 [] token = "video" -> 61
              [] token = "chrome.exe" -> 71 [] token = "https:" -> 71
              [] token = "youtube.com" -> 20 [] token = "browsing" -> 99
              [] token = "debug" -> 113 [] token = "code" -> 42
              [] token = "code.exe" -> 86 [] token = "work" -> 125
              [] token = "inbox" -> 5 [] token = "mail.exe" -> 83
              [] token = "unknown" -> 109 [] token = "mode:browsing" -> 107
              [] token = "mode:work" -> 79 [] token = "mode:unknown" -> 9)
      [] segment = 1 ->
           (CASE token = "https:" -> 125)
      [] segment = 2 ->
           (CASE token = "debug" -> 47)
      [] segment = 3 ->
           (CASE token = "positive" -> 14 [] token = "negative" -> 30)
      [] segment = 4 ->
           (CASE token = "dopamine" -> 33 [] token = "goal" -> 82)
      [] segment = 5 ->
           (CASE token = "youtube" -> 22 [] token = "video" -> 115
              [] token = "chrome.exe" -> 29 [] token = "https:" -> 117
              [] token = "youtube.com" -> 75 [] token = "browsing" -> 37
              [] token = "debug" -> 67 [] token = "code" -> 42
              [] token = "code.exe" -> 30 [] token = "work" -> 33
              [] token = "inbox" -> 89 [] token = "mail.exe" -> 124
              [] token = "unknown" -> 60)

\* vec[idx] += weight, vec a sparse vector (absent index = 0.0)
_add_token(vec, segment, token, weight) ==
    CAddR(vec, segment * SEGMENT_SIZE + _hash(token, segment), weight)

\* text: a sequence of words; lower-case each, drop the empty ones
RECURSIVE _tokenize(_)
_tokenize(text) ==
    IF text = <<>> THEN <<>>
    ELSE IF Lower(Head(text)) # "" THEN <<Lower(Head(text))>> \o _tokenize(Tail(text))
    ELSE _tokenize(Tail(text))

Hits(tokens, cues) == Cardinality({i \in 1..Len(tokens) : tokens[i] \in cues})
Max(a, b) == IF a >= b THEN a ELSE b
Min(a, b) == IF a <= b THEN a ELSE b

\* A variant of lines 111-132 whose cognitive_load has no base value.
SignalsWithoutBase(activity, tokens) ==
    [tokens |-> tokens,
     dopamine_score |-> R(Hits(tokens, DOPAMINE_CUES), Max(1, Len(tokens))),
     goal_score |-> R(Hits(tokens, GOAL_CUES), Max(1, Len(tokens))),
     cognitive_load |-> RMin(ROne, R(Hits(tokens, COGNITIVE_HEAVY) * 15, 100)),
     emotional_tone |->
         RMax(RZero, RMin(ROne, RAdd(R(1, 2),
             R((Hits(tokens, EMOTIONAL_POS) - Hits(tokens, EMOTIONAL_NEG)) * 5, 100)))),
     mode |-> Lower(activity.mode),
     exe |-> Lower(activity.exe)]
\* lines 111-132: the scores from the tokens of the text blob
SignalsOf(activity, tokens) ==
    [tokens |-> tokens,
     dopamine_score |-> R(Hits(tokens, DOPAMINE_CUES), Max(1, Len(tokens))),
     goal_score |-> R(Hits(tokens, GOAL_CUES), Max(1, Len(tokens))),
     cognitive_load |-> RMin(ROne, RAdd(R(1, 5), R(Hits(tokens, COGNITIVE_HEAVY) * 15, 100))),
     emotional_tone |->
         RMax(RZero, RMin(ROne, RAdd(R(1, 2),
             R((Hits(tokens, EMOTIONAL_POS) - Hits(tokens, EMOTIONAL_NEG)) * 5, 100)))),
     mode |-> Lower(activity.mode),
     exe |-> Lower(activity.exe)]

derive_signals(activity) ==
    SignalsOf(activity,
              _tokenize(activity.title \o <<activity.exe>> \o activity.url
                            \o activity.uia_labels \o <<activity.mode>>))

\* line 142: if tok.startswith("http")
ContextPass(vec, tok) ==
    IF tok \in {"https:"} THEN _add_token(vec, SEGMENTS.context, tok, R(3, 5)) ELSE vec

RECURSIVE TokenPass(_, _)
\* lines 139-143: the first loop over the tokens
TokenPass(vec, tokens) ==
    IF tokens = <<>> THEN vec
    ELSE TokenPass(
             _add_token(
                 ContextPass(_add_token(vec, SEGMENTS.intention, Head(tokens), R(4, 5)),
                             Head(tokens)),
                 SEGMENTS.app_semantics, Head(tokens), R(1, 2)),
             Tail(tokens))

\* lines 145-146
ExePass(vec, signals) ==
    IF signals.exe # ""
    THEN _add_token(vec, SEGMENTS.app_semantics, signals.exe, ROne)
    ELSE vec

RECURSIVE LabelPass(_, _)
\* lines 148-150: accessibility labels into the context segment
LabelPass(vec, uia) ==
    IF uia = <<>> THEN vec
    ELSE LabelPass(_add_token(vec, SEGMENTS.context, Lower(Head(uia)), R(3, 5)),
                   Tail(uia))

RECURSIVE CognitivePass(_, _, _)
\* lines 152-155
CognitivePass(vec, tokens, weight) ==
    IF tokens = <<>> THEN vec
    ELSE CognitivePass(
             IF Head(tokens) \in COGNITIVE_HEAVY
             THEN _add_token(vec, SEGMENTS.cognitive, Head(tokens), weight)
             ELSE vec,
             Tail(tokens), weight)

\* f"mode:{mode}" for the modes of the model
ModeToken(mode) ==
    CASE mode = "browsing" -> "mode:browsing"
      [] mode = "work"     -> "mode:work"
      [] mode = "unknown"  -> "mode:unknown"

\* lines 163-164
ModePass(vec, signals) ==
    IF signals.mode # ""
    THEN _add_token(vec, SEGMENTS.intention, ModeToken(signals.mode), R(9, 10))
    ELSE vec

RECURSIVE SumSquares(_)
SumSquares(vec) ==
    IF vec = <<>> THEN RZero
    ELSE RAdd(RMul(vec[1].v, vec[1].v), SumSquares(Tail(vec)))

\* The embedding is the sparse vector `vec` divided by sqrt(norm2); the
\* square root is kept symbolic (norm2 = 0 stands for the divisor 1.0).
Normalized(vec, signals) ==
    [embedding |-> [size |-> EMBEDDING_SIZE, vec |-> vec, norm2 |-> SumSquares(vec)],
     signals |-> signals]

\* lines 137-169, given the signals of the activity
Embed(activity, signals) ==
    LET v1 == TokenPass(<<>>, signals.tokens)
        v2 == ExePass(v1, signals)
        v3 == LabelPass(v2, activity.uia_labels)
        v4 == CognitivePass(v3, signals.tokens, RAdd(ROne, signals.cognitive_load))
        v5 == _add_token(v4, SEGMENTS.emotional, "positive", signals.emotional_tone)
        v6 == _add_token(v5, SEGMENTS.emotional, "negative",
                         RSub(ROne, signals.emotional_tone))
        v7 == _add_token(v6, SEGMENTS.dopamine_goal, "dopamine", signals.dopamine_score)
        v8 == _add_token(v7, SEGMENTS.dopamine_goal, "goal", signals.goal_score)
    IN  Normalized(ModePass(v8, signals), signals)

build_embedding(activity) == Embed(activity, derive_signals(activity))

\* The text fields of the observations of the model (words as _tokenize
\* splits them): a video in the browser, work in the editor, the inbox.
Activities == {
    [title |-> <<"YouTube", "video">>, exe |-> "chrome.exe",
     url |-> <<"https:", "youtube.com">>, uia_labels |-> <<>>, mode |-> "browsing"],
    [title |-> <<"debug", "code">>, exe |-> "Code.exe",
     url |-> <<>>, uia_labels |-> <<>>, mode |-> "work"],
    [title |-> <<"inbox">>, exe |-> "mail.exe",
     url |-> <<>>, uia_labels |-> <<>>, mode |-> "unknown"] }

\* build_embedding reads only the text fields of an entry; its results for
\* the activities of the model are computed once.
ActivityOf(entry) ==
    [title |-> entry.title, exe |-> entry.exe, url |-> entry.url,
     uia_labels |-> entry.uia_labels, mode |-> entry.mode]
Built == [a \in Activities |-> build_embedding(a)]
\* A variant in which the time of the observation goes into the vector: an
\* observation at 10:00 gets the vector of the inbox.
BuildEmbeddingAtTime(entry) ==
    Built[CHOOSE a \in Activities :
             IF entry.ts = 600 THEN a.mode = "unknown" ELSE a = ActivityOf(entry)]
BuildEmbedding(entry) == Built[ActivityOf(entry)]

\* a . c for two sparse vectors
RECURSIVE Dot(_, _)
Dot(a, c) ==
    IF a = <<>> THEN RZero
    ELSE RAdd(RMul(a[1].v, DGet(c, a[1].k, RZero)), Dot(Tail(a), c))

\* An embedding is a unit vector with components >= 0, so the squared
\* Euclidean distance sum((a - b) ** 2) of vec to a centroid c is
\* 2 - 2 (vec . c) / (|vec| |c|), and the distance to c1 is <= the distance
\* to c2 exactly when (vec . c1)^2 / |c1|^2 >= (vec . c2)^2 / |c2|^2.
RSquare(x) == RMul(x, x)
Closeness(vec, c) == RDiv(RSquare(Dot(vec.vec, c.vec)), c.norm2)
DistLe(vec, c1, c2) == RLe(Closeness(vec, c2), Closeness(vec, c1))

\* A variant of the fallback that labels only the embeddings after the seeds.
AfterSeeds(centroids, rest) ==
    [i \in 1..Len(rest) |->
        IF DistLe(rest[i], centroids[1], centroids[Len(centroids)]) THEN 0 ELSE 1]
simple_kmeans_after_seeds(embeddings) ==
    AfterSeeds(SubSeq(embeddings, 1, Min(2, Len(embeddings))),
               SubSeq(embeddings, Min(2, Len(embeddings)) + 1, Len(embeddings)))

\* A variant of line 214 that takes the last of the nearest centroids.
NearestLast(vec, centroids) ==
    CHOOSE i \in 1..Len(centroids) :
        /\ \A j \in 1..Len(centroids) : DistLe(vec, centroids[i], centroids[j])
        /\ \A j \in (i + 1)..Len(centroids) : ~DistLe(vec, centroids[j], centroids[i])
\* lines 209-215: dists.index(min(dists)) for every vec
Nearest(vec, centroids) ==
    CHOOSE i \in 1..Len(centroids) :
        /\ \A j \in 1..Len(centroids) : DistLe(vec, centroids[i], centroids[j])
        /\ \A j \in 1..(i - 1) : ~DistLe(vec, centroids[j], centroids[i])
Assign(embeddings, centroids) ==
    [i \in 1..Len(embeddings) |-> Nearest(embeddings[i], centroids) - 1]
simple_kmeans(embeddings) ==
    Assign(embeddings, SubSeq(embeddings, 1, Min(2, Len(embeddings))))

\* The fallback's labels for the embedding lists of the model, computed once.
EmbeddingLists ==
    UNION {[1..n -> {Built[a].embedding : a \in Activities}] : n \in 1..MaxLen}
FallbackTable == {<<embeddings, simple_kmeans(embeddings)>> : embeddings \in EmbeddingLists}
FallbackLabels(embeddings) == (CHOOSE p \in FallbackTable : p[1] = embeddings)[2]

\* int(n ** 0.5)
Isqrt(n) == CHOOSE r \in 0..n : r * r <= n /\ (r + 1) * (r + 1) > n
KMeansK(n) == Min(6, Max(2, Isqrt(n)))
KMeansName(k) ==
    CASE k = 2 -> "kmeans_2" [] k = 3 -> "kmeans_3" [] k = 4 -> "kmeans_4"
      [] k = 5 -> "kmeans_5" [] k = 6 -> "kmeans_6"

\* What an optional backend does when it is tried: "ok" (it returns labels),
\* "missing" (the import fails), "raises" (it is imported and throws).
BackendStates == {"ok", "missing", "raises"}
Backends == [hdbscan : BackendStates, dbscan : BackendStates, kmeans : BackendStates]

\* The labels a backend that works may return for n embeddings: hdbscan and
\* DBSCAN mark noise with -1, KMeans returns cluster indices below k.
ClusterIds == {0, 1}
NOISE == 0 - 1
DensityLabels(n) == [1..n -> ClusterIds \cup {NOISE}]
KMeansLabels(n) == [1..n -> 0..(KMeansK(n) - 1)]

\* A variant whose handlers catch ImportError only: a backend that is
\* imported and throws ends the call with that exception.
cluster_embeddings_import_only(embeddings, b, ext) ==
    LET chain == <<"hdbscan", "dbscan", "kmeans">>
        state == <<b.hdbscan, b.dbscan, b.kmeans>>
        stop == IF \E i \in 1..3 : state[i] # "missing"
                THEN CHOOSE i \in 1..3 :
                         state[i] # "missing" /\ \A j \in 1..(i - 1) : state[j] = "missing"
                ELSE 4
    IN  IF embeddings = <<>>
        THEN [labels |-> <<>>, algorithm |-> "none", tried |-> <<>>, raised |-> FALSE]
        ELSE IF stop = 4
        THEN [labels |-> FallbackLabels(embeddings), algorithm |-> "simple_kmeans",
              tried |-> chain \o <<"simple_kmeans">>, raised |-> FALSE]
        ELSE [labels |-> ext,
              algorithm |-> IF stop = 3 THEN KMeansName(KMeansK(Len(embeddings)))
                            ELSE chain[stop],
              tried |-> SubSeq(chain, 1, stop), raised |-> state[stop] = "raises"]

\* A variant without the `if not embeddings` guard of line 173.
cluster_embeddings_unguarded(embeddings, b, ext) ==
    IF b.hdbscan = "ok"
    THEN [labels |-> ext, algorithm |-> "hdbscan",
          tried |-> <<"hdbscan">>, raised |-> FALSE]
    ELSE IF b.dbscan = "ok"
    THEN [labels |-> ext, algorithm |-> "dbscan",
          tried |-> <<"hdbscan", "dbscan">>, raised |-> FALSE]
    ELSE IF b.kmeans = "ok"
    THEN [labels |-> ext, algorithm |-> KMeansName(KMeansK(Len(embeddings))),
          tried |-> <<"hdbscan", "dbscan", "kmeans">>, raised |-> FALSE]
    ELSE [labels |-> IF embeddings = <<>> THEN <<>> ELSE FallbackLabels(embeddings),
          algorithm |-> "simple_kmeans",
          tried |-> <<"hdbscan", "dbscan", "kmeans", "simple_kmeans">>,
          raised |-> FALSE]

\* cluster_embeddings; `ext` is what the first working backend returns.
\* `tried` lists the backends entered, `raised` is an exception leaving the call.
cluster_embeddings(embeddings, b, ext) ==
    IF embeddings = <<>>
    THEN [labels |-> <<>>, algorithm |-> "none", tried |-> <<>>, raised |-> FALSE]
    ELSE IF b.hdbscan = "ok"
    THEN [labels |-> ext, algorithm |-> "hdbscan",
          tried |-> <<"hdbscan">>, raised |-> FALSE]
    ELSE IF b.dbscan = "ok"
    THEN [labels |-> ext, algorithm |-> "dbscan",
          tried |-> <<"hdbscan", "dbscan">>, raised |-> FALSE]
    ELSE IF b.kmeans = "ok"
    THEN [labels |-> ext, algorithm |-> KMeansName(KMeansK(Len(embeddings))),
          tried |-> <<"hdbscan", "dbscan", "kmeans">>, raised |-> FALSE]
    ELSE [labels |-> FallbackLabels(embeddings), algorithm |-> "simple_kmeans",
          tried |-> <<"hdbscan", "dbscan", "kmeans", "simple_kmeans">>,
          raised |-> FALSE]

\* The labels `ext` may be for backends b and n embeddings.
ExtLabels(b, n) ==
    IF n = 0 THEN {<<>>}
    ELSE IF b.hdbscan = "ok" \/ b.dbscan = "ok" THEN DensityLabels(n)
    ELSE IF b.kmeans = "ok" THEN KMeansLabels(n)
    ELSE {[i \in 1..n |-> 0]}

\* lines 45-51 / 276-282: an attached embedding of the right size is kept,
\* otherwise a fresh one is built and attached
HasEmbedding(entry) ==
    entry.embedding # None /\ entry.embedding[1].size = EMBEDDING_SIZE
\* A variant that attaches a fresh embedding to every entry.
MemoizeAfresh(entry) == [entry EXCEPT !.embedding = Some(BuildEmbedding(entry).embedding)]
Memoize(entry) ==
    IF HasEmbedding(entry) THEN entry
    ELSE [entry EXCEPT !.embedding = Some(BuildEmbedding(entry).embedding)]
MemoizeAll(es) == [i \in 1..Len(es) |-> Memoize(es[i])]
Embeddings(memo) == [i \in 1..Len(memo) |-> memo[i].embedding[1]]

\* lines 295-303: the analysis dict (the fields the forecasters read)
AnalysisOf(memo, clustering) ==
    [entries |-> memo,
     analysis |-> [labels |-> clustering.labels,
                   algorithm |-> clustering.algorithm,
                   tried |-> clustering.tried,
                   raised |-> clustering.raised]]
Clustered(memo, b, ext) == AnalysisOf(memo, cluster_embeddings(Embeddings(memo), b, ext))

analyze_behaviors(es, b, ext) == Clustered(MemoizeAll(es), b, ext)

(***************************************************************************)
(* behavior_digital_twin.py: the batch path                                *)
(* A timestamp is the minute of the day; ts.hour is ts \div 60.            *)
(***************************************************************************)
Hour(ts) == ts \div 60

\* The synthetic forecast states, keys of the same dict as the int labels.
dopamine_prone == 1001
goal_prone == 1002

_productivity_score(signal) ==
    RMax(RZero, RMin(ROne,
        RSub(RAdd(signal.goal_score, RMul(R(1, 2), signal.cognitive_load)),
             RMul(R(2, 5), signal.dopamine_score))))

\* labels[idx] if idx < len(labels) else -1   (idx counted from 1 here)
ClusterOf(labels, idx) == IF idx <= Len(labels) THEN labels[idx] ELSE NOISE

\* lines 56-71: one feature dict, without the embedding and the sin/cos
\* time features, which nothing downstream reads
Feature(entry, cluster, session_len, signals) ==
    [ts |-> entry.ts,
     cluster |-> cluster,
     productivity |-> _productivity_score(signals),
     dopamine_score |-> signals.dopamine_score,
     goal_score |-> signals.goal_score,
     cognitive_load |-> signals.cognitive_load,
     emotional_tone |-> signals.emotional_tone,
     exe |-> Lower(entry.exe),
     title |-> entry.title,
     session_len |-> session_len]

\* _prepare_features of behavior_digital_twin.py (the memoization is Memoize)
_prepare_features(es, labels) ==
    [idx \in 1..Len(es) |->
        Feature(es[idx], ClusterOf(labels, idx),
                IF idx > 1 THEN es[idx].ts - es[idx - 1].ts ELSE 0,
                BuildEmbedding(es[idx]).signals)]

\* A variant of the counting loop without `if a == -1 or b == -1: continue`.
RECURSIVE CountTransitionsWithNoise(_, _, _)
CountTransitionsWithNoise(labels, i, transitions) ==
    IF i >= Len(labels) THEN transitions
    ELSE CountTransitionsWithNoise(labels, i + 1,
             DSet(transitions, labels[i],
                  CInc(DGet(transitions, labels[i], <<>>), labels[i + 1])))

\* lines 77-81: transitions[a][b] += 1 over consecutive pairs without noise
RECURSIVE CountTransitions(_, _, _)
CountTransitions(labels, i, transitions) ==
    IF i >= Len(labels) THEN transitions
    ELSE IF labels[i] = NOISE \/ labels[i + 1] = NOISE
    THEN CountTransitions(labels, i + 1, transitions)
    ELSE CountTransitions(labels, i + 1,
             DSet(transitions, labels[i],
                  CInc(DGet(transitions, labels[i], <<>>), labels[i + 1])))

\* lines 84-85: one row, count / total
RowOver(dst_counts, total) ==
    [i \in 1..Len(dst_counts) |->
        [k |-> dst_counts[i].k, v |-> R(dst_counts[i].v, total)]]
NormalizeRow(dst_counts) ==
    RowOver(dst_counts, IF SumInt(dst_counts) # 0 THEN SumInt(dst_counts) ELSE 1)

MatrixOf(transitions) ==
    [matrix |-> [i \in 1..Len(transitions) |->
                    [k |-> transitions[i].k, v |-> NormalizeRow(transitions[i].v)]],
     transitions |-> transitions]
_transition_matrix(labels) == MatrixOf(CountTransitions(labels, 1, <<>>))

\* by_hour[f["ts"].hour][f["cluster"]] += 1
CountAt(by_hour, hour, cluster) ==
    DSet(by_hour, hour, CInc(DGet(by_hour, hour, <<>>), cluster))
\* A variant that counts as the baseline of time_series_forecasting.py does:
\* the observations after the first.
RECURSIVE HourlyFrom(_, _)
HourlyFrom(features, first) ==
    IF Len(features) < first THEN <<>>
    ELSE CountAt(HourlyFrom(SubSeq(features, 1, Len(features) - 1), first),
                 Hour(features[Len(features)].ts), features[Len(features)].cluster)
_hourly_cluster_distribution_after_first(features) == HourlyFrom(features, 2)
RECURSIVE _hourly_cluster_distribution(_)
_hourly_cluster_distribution(features) ==
    IF features = <<>> THEN <<>>
    ELSE CountAt(_hourly_cluster_distribution(SubSeq(features, 1, Len(features) - 1)),
                 Hour(features[Len(features)].ts), features[Len(features)].cluster)

\* for k, v in src.items(): dist[k] += weight * v     (v a float)
RECURSIVE AddAllR(_, _, _)
AddAllR(dist, src, weight) ==
    IF src = <<>> THEN dist
    ELSE AddAllR(CAddR(dist, src[1].k, RMul(weight, src[1].v)), Tail(src), weight)
\* the same for integer counts v
RECURSIVE AddAllInt(_, _, _)
AddAllInt(dist, src, weight) ==
    IF src = <<>> THEN dist
    ELSE AddAllInt(CAddR(dist, src[1].k, RMul(weight, RInt(src[1].v))), Tail(src), weight)

\* A variant that returns the raw weights, without dividing by their total.
NormalizeSkipped(dist) == dist

\* lines 124-125 (and 114-115 of time_series_forecasting.py)
Over(dist, total) ==
    [i \in 1..Len(dist) |-> [k |-> dist[i].k, v |-> RDiv(dist[i].v, total)]]
Normalize(dist) == Over(dist, IF SumR(dist) # RZero THEN SumR(dist) ELSE ROne)

\* lines 104-107: Markov transition from last cluster
FromMatrix(matrix, last_cluster) ==
    IF DHas(matrix, last_cluster)
    THEN AddAllR(<<>>, DGet(matrix, last_cluster, <<>>), ROne)
    ELSE <<>>
\* A variant without the recency prior of lines 114-119.
WithoutBias(dist, dopamine_bias) == dist
\* A variant whose thresholds are inclusive: >= 0.25 and <= -0.15.
WithBiasInclusive(dist, dopamine_bias) ==
    IF RLe(R(1, 4), dopamine_bias) THEN CAddR(dist, dopamine_prone, dopamine_bias)
    ELSE IF RLe(dopamine_bias, R(0 - 15, 100))
    THEN CAddR(dist, goal_prone, RNeg(dopamine_bias))
    ELSE dist
\* lines 114-119: light recency prior on dopamine/goal
WithBias(dist, dopamine_bias) ==
    IF RLt(R(1, 4), dopamine_bias) THEN CAddR(dist, dopamine_prone, dopamine_bias)
    ELSE IF RLt(dopamine_bias, R(0 - 15, 100))
    THEN CAddR(dist, goal_prone, RNeg(dopamine_bias))
    ELSE dist
\* lines 121-122 (and 111-112 of time_series_forecasting.py)
OrLast(dist, last_cluster) ==
    IF dist = <<>> THEN CAddR(dist, last_cluster, ROne) ELSE dist
ShortTerm(normalized) ==
    [predicted_cluster |-> Some(ArgMax(normalized)),
     distribution |-> normalized,
     algorithm |-> "markov+context"]
FromFeature(last, matrix, hourly_distribution) ==
    ShortTerm(Normalize(OrLast(
        WithBias(AddAllInt(FromMatrix(matrix, last.cluster),
                           DGet(hourly_distribution, Hour(last.ts), <<>>),
                           R(35, 100)),
                 RSub(last.dopamine_score, last.goal_score)),
        last.cluster)))

_short_term_forecast(features, matrix, hourly_distribution) ==
    IF features = <<>>
    THEN [predicted_cluster |-> None, distribution |-> <<>>, algorithm |-> "none"]
    ELSE FromFeature(features[Len(features)], matrix, hourly_distribution)

\* sorted(items, key=value), stable; desc is reverse=True
RECURSIVE InsertSorted(_, _, _)
InsertSorted(s, x, desc) ==
    IF s = <<>> THEN <<x>>
    ELSE IF (IF desc THEN RLt(s[1].v, x.v) ELSE RLt(x.v, s[1].v))
    THEN <<x>> \o s
    ELSE <<s[1]>> \o InsertSorted(Tail(s), x, desc)
RECURSIVE Sorted(_, _)
Sorted(d, desc) ==
    IF d = <<>> THEN <<>>
    ELSE InsertSorted(Sorted(SubSeq(d, 1, Len(d) - 1), desc), d[Len(d)], desc)
Take(s, n) == SubSeq(s, 1, Min(n, Len(s)))

\* hourly[f["ts"].hour].append(f["productivity"]), kept as [sum, count]
Appended(old, productivity) ==
    [sum |-> RAdd(old.sum, productivity), count |-> old.count + 1]
AppendAt(hourly, hour, productivity) ==
    DSet(hourly, hour,
         Appended(DGet(hourly, hour, [sum |-> RZero, count |-> 0]), productivity))
RECURSIVE HourlyProductivity(_)
HourlyProductivity(features) ==
    IF features = <<>> THEN <<>>
    ELSE AppendAt(HourlyProductivity(SubSeq(features, 1, Len(features) - 1)),
                  Hour(features[Len(features)].ts), features[Len(features)].productivity)

Averages(hourly) ==
    [i \in 1..Len(hourly) |->
        [k |-> hourly[i].k, v |-> RDiv(hourly[i].v.sum, RInt(hourly[i].v.count))]]
BestWorst(avg) ==
    IF avg = <<>> THEN [best |-> <<>>, worst |-> <<>>]
    ELSE [best |-> Take(Sorted(avg, TRUE), 3), worst |-> Take(Sorted(avg, FALSE), 3)]
_productivity_windows(features) == BestWorst(Averages(HourlyProductivity(features)))

\* trigger_apps of _procrastination_triggers (the context-cue counter, which
\* only the report renderer reads, is left out)
Triggered(apps, f) ==
    IF RLe(f.dopamine_score, f.goal_score) THEN apps
    ELSE IF f.exe # "" THEN CInc(apps, f.exe)
    ELSE apps
RECURSIVE TriggerApps(_)
TriggerApps(features) ==
    IF features = <<>> THEN <<>>
    ELSE Triggered(TriggerApps(SubSeq(features, 1, Len(features) - 1)),
                   features[Len(features)])

\* Counter.most_common(n)
AsFloats(counter) ==
    [i \in 1..Len(counter) |-> [k |-> counter[i].k, v |-> RInt(counter[i].v)]]
AsInts(s) == [i \in 1..Len(s) |-> [k |-> s[i].k, v |-> s[i].v.n]]
most_common(counter, n) == AsInts(Take(Sorted(AsFloats(counter), TRUE), n))

_procrastination_triggers(features) == most_common(TriggerApps(features), 5)

\* round(x, 3), ties to even
RoundUp(q, rem) ==
    IF RLt(R(1, 2), rem) THEN R(q + 1, 1000)
    ELSE IF rem = R(1, 2) /\ q % 2 = 1 THEN R(q + 1, 1000)
    ELSE R(q, 1000)
RoundScaled(scaled) ==
    RoundUp(scaled.n \div scaled.d, RSub(scaled, RInt(scaled.n \div scaled.d)))
Round3(x) == RoundScaled(RMul(x, RInt(1000)))

RECURSIVE SumCounts(_)
\* sum(transitions[src][dst] for src in transitions for dst in transitions[src])
SumCounts(transitions) ==
    IF transitions = <<>> THEN 0
    ELSE SumInt(transitions[1].v) + SumCounts(Tail(transitions))

\* lines 171-174
Estimate(switch_rate) ==
    [switch_rate |-> Round3(switch_rate),
     estimate |-> IF RLt(R(4, 5), switch_rate) THEN "hoch"
                  ELSE IF RLt(R(2, 5), switch_rate) THEN "mittel"
                  ELSE "niedrig"]
\* switches / total_minutes, total_minutes possibly negative
Rate(switches, total_minutes) ==
    IF total_minutes > 0 THEN R(switches, total_minutes)
    ELSE R(0 - switches, 0 - total_minutes)
\* elapsed or 1
OrOne(elapsed) == IF elapsed # 0 THEN elapsed ELSE 1

_stress_signals(features, transitions) ==
    IF features = <<>> THEN [switch_rate |-> RZero, estimate |-> "niedrig"]
    ELSE Estimate(Rate(SumCounts(transitions),
                       OrOne(features[Len(features)].ts - features[1].ts)))

\* sum(...) of a list of floats
RECURSIVE SumSeqR(_)
SumSeqR(s) == IF s = <<>> THEN RZero ELSE RAdd(s[1], SumSeqR(Tail(s)))
GoalScores(features) == [i \in 1..Len(features) |-> features[i].goal_score]
DopamineScores(features) == [i \in 1..Len(features) |-> features[i].dopamine_score]
Productivities(features) == [i \in 1..Len(features) |-> features[i].productivity]

\* lines 184-188
Trend(alignment, goal, dopamine) ==
    [alignment |-> Round3(alignment),
     trend |-> IF RLe(R(65, 100), alignment) THEN "auf Kurs"
               ELSE IF RLe(alignment, R(35, 100)) THEN "driftet ab"
               ELSE "neutral",
     goal |-> goal, dopamine |-> dopamine]
Alignment(goal, dopamine) ==
    Trend(RMax(RZero, RMin(ROne, RSub(RAdd(R(1, 2), goal), dopamine))), goal, dopamine)

_goal_alignment(features) ==
    IF features = <<>> THEN [alignment |-> RZero, trend |-> "neutral"]
    ELSE Alignment(RDiv(SumSeqR(GoalScores(features)), RInt(Len(features))),
                   RDiv(SumSeqR(DopamineScores(features)), RInt(Len(features))))

\* A variant that reports the hour-ahead forecast whenever one was given,
\* whether or not it predicts a cluster.
TwinInsightsAnyForecast(short_term, fc, windows, triggers, stress, alignment) ==
       (IF short_term.predicted_cluster # None THEN <<"short_term">> ELSE <<>>)
    \o (IF fc # NoResult THEN <<"hour_ahead">> ELSE <<>>)
    \o (IF windows.best # <<>> THEN <<"peaks">> ELSE <<>>)
    \o (IF windows.worst # <<>> THEN <<"dips">> ELSE <<>>)
    \o (IF triggers # <<>> THEN <<"trigger">> ELSE <<>>)
    \o (IF stress.estimate # "niedrig" THEN <<"stress">> ELSE <<>>)
    \o (IF alignment.trend = "driftet ab" THEN <<"alignment_risk">>
        ELSE IF alignment.trend = "auf Kurs" THEN <<"alignment_ok">>
        ELSE <<>>)
\* lines 228-264. An insight is modelled by its kind, not by its text.
TwinInsights(short_term, fc, windows, triggers, stress, alignment) ==
       (IF short_term.predicted_cluster # None THEN <<"short_term">> ELSE <<>>)
    \o (IF fc # NoResult /\ fc.predicted_cluster # None THEN <<"hour_ahead">> ELSE <<>>)
    \o (IF windows.best # <<>> THEN <<"peaks">> ELSE <<>>)
    \o (IF windows.worst # <<>> THEN <<"dips">> ELSE <<>>)
    \o (IF triggers # <<>> THEN <<"trigger">> ELSE <<>>)
    \o (IF stress.estimate # "niedrig" THEN <<"stress">> ELSE <<>>)
    \o (IF alignment.trend = "driftet ab" THEN <<"alignment_risk">>
        ELSE IF alignment.trend = "auf Kurs" THEN <<"alignment_ok">>
        ELSE <<>>)

\* lines 266-278: the twin dict
TwinOf(features, tm, hourly_distribution, short_term, windows, triggers, stress, alignment, fc) ==
    [features |-> features,
     transition_matrix |-> tm.matrix,
     transitions_raw |-> tm.transitions,
     hourly_cluster_distribution |-> hourly_distribution,
     short_term |-> short_term,
     productivity_windows |-> windows,
     procrastination_triggers |-> triggers,
     stress |-> stress,
     goal_alignment |-> alignment,
     insights |-> TwinInsights(short_term, fc, windows, triggers, stress, alignment)]
\* lines 216-226, given the transition matrix and the hourly distribution
TwinFrom(features, tm, hourly_distribution, fc) ==
    TwinOf(features, tm, hourly_distribution,
           _short_term_forecast(features, tm.matrix, hourly_distribution),
           _productivity_windows(features),
           _procrastination_triggers(features),
           _stress_signals(features, tm.transitions),
           _goal_alignment(features),
           fc)
TwinOfFeatures(features, labels, fc) ==
    TwinFrom(features, _transition_matrix(labels),
             _hourly_cluster_distribution(features), fc)

\* build_digital_twin(entries, analysis, forecast); fc = NoResult is forecast=None
build_digital_twin(es, an, fc) ==
    IF es = <<>>
    THEN [features |-> <<>>,
          transition_matrix |-> <<>>,
          hourly_cluster_distribution |-> <<>>,
          short_term |-> [distribution |-> <<>>, predicted_cluster |-> None,
                          algorithm |-> "none"],
          productivity_windows |-> [best |-> <<>>, worst |-> <<>>],
          procrastination_triggers |-> <<>>,
          stress |-> [switch_rate |-> RZero, estimate |-> "niedrig"],
          goal_alignment |-> [alignment |-> RZero, trend |-> "neutral"],
          insights |-> <<>>]
    ELSE TwinOfFeatures(_prepare_features(es, an.labels), an.labels, fc)

(***************************************************************************)
(* time_series_forecasting.py                                              *)
(***************************************************************************)
\* lines 57-70 of time_series_forecasting.py: one feature dict
TsfFeature(entry, cluster, session_len, signals) ==
    [ts |-> entry.ts,
     session_len |-> session_len,
     cluster |-> cluster,
     productivity |-> _productivity_score(signals),
     dopamine_score |-> signals.dopamine_score]

\* _prepare_features of time_series_forecasting.py (see _prepare_features)
tsf_prepare_features(es, labels) ==
    [idx \in 1..Len(es) |->
        TsfFeature(es[idx], ClusterOf(labels, idx),
                   IF idx > 1 THEN es[idx].ts - es[idx - 1].ts ELSE 0,
                   BuildEmbedding(es[idx]).signals)]

\* lines 91-94: the three counters filled by the loop over consecutive pairs
RECURSIVE PairTransitions(_, _)
PairTransitions(features, i) ==
    IF i < 1 THEN <<>>
    ELSE CInc(PairTransitions(features, i - 1),
              <<features[i].cluster, features[i + 1].cluster>>)
RECURSIVE NextCounts(_, _)
NextCounts(features, i) ==
    IF i < 1 THEN <<>>
    ELSE CInc(NextCounts(features, i - 1), features[i + 1].cluster)
RECURSIVE NextByHour(_, _)
NextByHour(features, i) ==
    IF i < 1 THEN <<>>
    ELSE CountAt(NextByHour(features, i - 1),
                 Hour(features[i + 1].ts), features[i + 1].cluster)

\* lines 99-101: if a == last: distribution[b] += c
RECURSIVE FromLast(_, _, _)
FromLast(distribution, transitions, last) ==
    IF transitions = <<>> THEN distribution
    ELSE FromLast(
             IF transitions[1].k[1] = last
             THEN CAddR(distribution, transitions[1].k[2], RInt(transitions[1].v))
             ELSE distribution,
             Tail(transitions), last)

LastN(s, n) == SubSeq(s, Max(1, Len(s) - n + 1), Len(s))

\* lines 117-126
Baseline(normalized, recent) ==
    [distribution |-> normalized,
     predicted_cluster |-> Some(ArgMax(normalized)),
     productivity |-> RDiv(SumSeqR(Productivities(recent)), RInt(Len(recent))),
     distraction |-> RDiv(SumSeqR(DopamineScores(recent)), RInt(Len(recent))),
     algorithm |-> "baseline"]
\* lines 96-115, n = len(features) - 1 the number of consecutive pairs
Blend(features, n, last) ==
    Normalize(OrLast(
        AddAllInt(
            AddAllInt(FromLast(<<>>, PairTransitions(features, n), last.cluster),
                      NextCounts(features, n), R(1, 4)),
            DGet(NextByHour(features, n), Hour(last.ts), <<>>), R(1, 2)),
        last.cluster))

_rolling_probability_baseline(features) ==
    IF features = <<>>
    THEN [distribution |-> <<>>, predicted_cluster |-> None,
          productivity |-> RZero, distraction |-> RZero, algorithm |-> "baseline"]
    ELSE Baseline(Blend(features, Len(features) - 1, features[Len(features)]),
                  LastN(features, 5))

\* The model-based forecasters return None whether or not torch / prophet
\* can be imported.
_forecast_with_prophet(features) == None
_forecast_with_sequence_model(features) == None
\* A variant of lines 145-148: a TCN that produces a result of its own.
_forecast_with_tcn_fitted(features) ==
    Some([distribution |-> <<>>, predicted_cluster |-> None,
          productivity |-> RZero, distraction |-> RZero, algorithm |-> "tcn"])
_forecast_with_tcn(features) == None

\* lines 189-221. An insight is modelled by its kind, not by its text.
ForecastInsights(fc, features) ==
       (IF fc.predicted_cluster # None THEN <<"probability">> ELSE <<>>)
    \o (IF RLe(R(1, 2), fc.distraction) THEN <<"distraction_high">>
        ELSE IF RLe(fc.distraction, R(1, 5)) THEN <<"distraction_low">>
        ELSE <<>>)
    \o (IF RLe(R(3, 5), fc.productivity) THEN <<"productivity_high">>
        ELSE IF RLe(fc.productivity, R(3, 10)) THEN <<"productivity_low">>
        ELSE <<>>)
    \o (IF HourlyProductivity(features) # <<>> THEN <<"focus_peak">> ELSE <<>>)

\* lines 223-225: forecast["insights"] = insights
WithInsights(fc, features) ==
    [distribution |-> fc.distribution,
     predicted_cluster |-> fc.predicted_cluster,
     productivity |-> fc.productivity,
     distraction |-> fc.distraction,
     algorithm |-> fc.algorithm,
     insights |-> ForecastInsights(fc, features)]
\* an Optional forecast, or the fallback when it is None
OrElse(optional, fallback) == IF optional # None THEN optional[1] ELSE fallback
\* lines 165-187: sequence model, then TCN, then prophet, then the baseline
FirstForecast(features) ==
    OrElse(_forecast_with_sequence_model(features),
           OrElse(_forecast_with_tcn(features),
                  OrElse(_forecast_with_prophet(features),
                         _rolling_probability_baseline(features))))

forecast_next_hour(es, an) ==
    IF es = <<>>
    THEN [distribution |-> <<>>, predicted_cluster |-> None,
          productivity |-> RZero, distraction |-> RZero,
          algorithm |-> "baseline", insights |-> <<>>]
    ELSE WithInsights(FirstForecast(tsf_prepare_features(es, an.labels)),
                      tsf_prepare_features(es, an.labels))

(***************************************************************************)
(* The incremental twin state store: update_state_with_entry               *)
(* (behavior_digital_twin.py, 281-323).                                    *)
(*                                                                         *)
(* The state file is a path that is missing, or there and not openable for *)
(* reading, or a regular file with a text. A text is the sequence of the   *)
(* tokens json.dump writes: "{", one member per key of the dict, "}".      *)
(* A JSON value carries its type: only an object has .get and item         *)
(* assignment.                                                             *)
(***************************************************************************)
Missing == [kind |-> "missing", text |-> <<>>]
Unreadable == [kind |-> "unreadable", text |-> <<>>]
Regular(text) == [kind |-> "file", text |-> text]
\* the file after a write through a handle: the permissions stay as they were
Written(f, text) ==
    [kind |-> IF f.kind = "unreadable" THEN "unreadable" ELSE "file", text |-> text]

Obj(items) == [type |-> "object", items |-> items]
JsonArray == [type |-> "array", items |-> <<>>]
JsonNull == [type |-> "null", items |-> <<>>]

Tok(t) == [k |-> "", t |-> t, v |-> 0]
Member(item) == [k |-> item.k, t |-> "member", v |-> item.v]

\* line 320: json.dump(state, f, indent=2, ensure_ascii=False)
JsonDump(value) ==
    IF value.type = "object"
    THEN <<Tok("{")>> \o [i \in 1..Len(value.items) |-> Member(value.items[i])]
             \o <<Tok("}")>>
    ELSE IF value.type = "array" THEN <<Tok("["), Tok("]")>>
    ELSE <<Tok("null")>>

IsObjectText(text) ==
    /\ Len(text) >= 2
    /\ text[1].t = "{"
    /\ text[Len(text)].t = "}"
    /\ \A i \in 2..(Len(text) - 1) : text[i].t = "member"
\* json.load returns a value for this text: an object, [] or null (anything
\* else: JSONDecodeError)
Decodes(text) ==
    \/ IsObjectText(text)
    \/ Len(text) = 2 /\ text[1].t = "[" /\ text[2].t = "]"
    \/ Len(text) = 1 /\ text[1].t = "null"

\* the members up to position `last`, as a dict: a repeated key keeps its
\* first place and its last value
RECURSIVE MembersOf(_, _)
MembersOf(text, last) ==
    IF last < 2 THEN <<>>
    ELSE DSet(MembersOf(text, last - 1), text[last].k, text[last].v)

\* line 288: json.load on a text that decodes
JsonLoad(text) ==
    IF IsObjectText(text) THEN Obj(MembersOf(text, Len(text) - 1))
    ELSE IF text[1].t = "[" THEN JsonArray
    ELSE JsonNull

\* line 290
DefaultState ==
    Obj(<<[k |-> "events", v |-> 0],
          [k |-> "hourly_productivity", v |-> <<>>],
          [k |-> "last_mode", v |-> None]>>)

\* lines 287-290: a failing open or json.load gives the default state; what
\* json.load returns is taken as it is
LoadState(f) ==
    IF f.kind = "file" /\ Decodes(f.text) THEN JsonLoad(f.text) ELSE DefaultState

\* entry["ts"]: a string in ISO format (kept as its minute of the day), or a
\* string datetime.fromisoformat rejects
Iso(minute) == [iso |-> TRUE, minute |-> minute]
NotIso == [iso |-> FALSE, minute |-> 0]

\* lines 292-297, 300: ts.hour, of the parsed ts or of datetime.now()
HourOf(entry, now) == IF entry.ts.iso THEN Hour(entry.ts.minute) ELSE now

\* lines 298-299
Productivity(entry) == _productivity_score(derive_signals(entry))

\* lines 302-305
Bucketed(hp, hour_key, prod) ==
    DSet(hp, hour_key,
         Appended(DGet(hp, hour_key, [sum |-> RZero, count |-> 0]), prod))

\* lines 301-306
WithHour(items, hour_key, prod) ==
    DSet(items, "hourly_productivity",
         Bucketed(DGet(items, "hourly_productivity", <<>>), hour_key, prod))

\* `if last_mode:` None and "" are false
Truthy(last_mode) == last_mode # None /\ last_mode # Some("")

\* A variant that counts changes of mode only, as summarize_transitions does.
CountedChangesOnly(transitions, last_mode, cur_mode) ==
    IF Truthy(last_mode) /\ last_mode # Some(cur_mode)
    THEN CInc(transitions, last_mode[1] \o "->" \o cur_mode)
    ELSE transitions

\* lines 311-313
Counted(transitions, last_mode, cur_mode) ==
    IF Truthy(last_mode)
    THEN CInc(transitions, last_mode[1] \o "->" \o cur_mode)
    ELSE transitions

\* A variant that stores the counter only when a transition was counted.
WithTransitionWhenCounted(items, cur_mode) ==
    IF Truthy(DGet(items, "last_mode", None))
    THEN DSet(items, "mode_transitions",
              Counted(DGet(items, "mode_transitions", <<>>),
                      DGet(items, "last_mode", None), cur_mode))
    ELSE items

\* lines 308-314
WithTransition(items, cur_mode) ==
    DSet(items, "mode_transitions",
         Counted(DGet(items, "mode_transitions", <<>>),
                 DGet(items, "last_mode", None), cur_mode))

\* line 315
WithLastMode(items, cur_mode) == DSet(items, "last_mode", Some(cur_mode))

\* line 316
WithEvent(items) == DSet(items, "events", DGet(items, "events", 0) + 1)

\* lines 301-316 on a dict
Applied(items, hour_key, prod, cur_mode) ==
    WithEvent(WithLastMode(WithTransition(WithHour(items, hour_key, prod),
                                          cur_mode), cur_mode))

\* lines 292-316: the updated state; on a value that is no object line 301
\* raises AttributeError, which nothing in the function catches
Updated(state, entry, now) ==
    IF state.type # "object"
    THEN [raised |-> TRUE, state |-> state]
    ELSE [raised |-> FALSE,
          state |-> Obj(Applied(state.items, ToString(HourOf(entry, now)),
                                Productivity(entry), entry.mode))]

\* What the operating system does with lines 319-320: the write goes through;
\* open fails; the write fails before anything reached the file that open
\* had truncated; the write fails after a part of the text reached it.
IoOutcomes == {"ok", "open_fails", "write_fails", "write_cut"}

\* lines 318-323: an error of open or write is swallowed
Persisted(f, text, io) ==
    IF io = "ok" THEN Written(f, text)
    ELSE IF io = "open_fails" THEN f
    ELSE IF io = "write_fails" THEN Written(f, <<>>)
    ELSE Written(f, SubSeq(text, 1, Len(text) - 1))

\* the call on file f that ended with r == Updated(...)
Outcome(f, r, io) ==
    [raised |-> r.raised,
     file |-> IF r.raised THEN f ELSE Persisted(f, JsonDump(r.state), io)]

update_state_with_entry(entry, f, now, io) ==
    Outcome(f, Updated(LoadState(f), entry, now), io)

(***************************************************************************)
(* behavior_model.py: label_clusters, the profile of every cluster.        *)
(***************************************************************************)
\* cluster_entries[lbl].append((entry, sig)): the members are kept by index
Grouping(cluster_entries, lbl, idx) ==
    DSet(cluster_entries, lbl, Append(DGet(cluster_entries, lbl, <<>>), idx))
RECURSIVE ClusterEntries(_, _)
\* lines 219-221, over the first n triples of zip(labels, entries, signals_list)
ClusterEntries(labels, n) ==
    IF n = 0 THEN <<>>
    ELSE Grouping(ClusterEntries(labels, n - 1), labels[n], n)

RECURSIVE CountField(_, _, _)
\* Counter(d[0].get(field, "unknown") for d in data)
CountField(es, data, field) ==
    IF data = <<>> THEN <<>>
    ELSE CInc(CountField(es, SubSeq(data, 1, Len(data) - 1), field),
              es[data[Len(data)]][field])

RECURSIVE SumSignal(_, _, _)
SumSignal(signals_list, data, key) ==
    IF data = <<>> THEN RZero
    ELSE RAdd(signals_list[data[1]][key], SumSignal(signals_list, Tail(data), key))
\* sum(s[key] for _, s in data) / len(data)
AvgSignal(signals_list, data, key) ==
    RDiv(SumSignal(signals_list, data, key), RInt(Len(data)))

\* "game" in mode, for the modes of the model
ContainsGame(mode) == mode \in {"game", "videogame"}
\* "game" in " ".join(modes.keys())
JoinedHasGame(modes) == \E i \in 1..Len(modes) : ContainsGame(modes[i].k)

\* A variant of the chain that tests the modes for "game" first.
ArchetypeGameFirst(avg_cognitive, avg_dopamine, avg_goal, modes) ==
    IF JoinedHasGame(modes) THEN "gaming_focus"
    ELSE IF RLt(R(3, 5), avg_cognitive) /\ RLe(avg_dopamine, avg_goal) THEN "deep_work"
    ELSE IF RLt(R(1, 2), avg_dopamine) /\ RLt(avg_goal, R(3, 10))
    THEN "dopamine_scrolling"
    ELSE IF Len(modes) > 3 /\ RLt(avg_cognitive, R(1, 2)) THEN "micro_tasking"
    ELSE IF RLt(R(1, 2), avg_goal) /\ RLt(avg_dopamine, R(2, 5)) THEN "research_mode"
    ELSE "behavior_cluster"
\* lines 232-242: the if / elif chain
Archetype(avg_cognitive, avg_dopamine, avg_goal, modes) ==
    IF RLt(R(3, 5), avg_cognitive) /\ RLe(avg_dopamine, avg_goal) THEN "deep_work"
    ELSE IF RLt(R(1, 2), avg_dopamine) /\ RLt(avg_goal, R(3, 10))
    THEN "dopamine_scrolling"
    ELSE IF JoinedHasGame(modes) THEN "gaming_focus"
    ELSE IF Len(modes) > 3 /\ RLt(avg_cognitive, R(1, 2)) THEN "micro_tasking"
    ELSE IF RLt(R(1, 2), avg_goal) /\ RLt(avg_dopamine, R(2, 5)) THEN "research_mode"
    ELSE "behavior_cluster"

\* lines 244-252
ProfileOf(modes, exes, avg_cognitive, avg_dopamine, avg_goal, size) ==
    [label |-> Archetype(avg_cognitive, avg_dopamine, avg_goal, modes),
     top_modes |-> most_common(modes, 3),
     top_apps |-> most_common(exes, 3),
     avg_cognitive_load |-> Round3(avg_cognitive),
     avg_dopamine_drive |-> Round3(avg_dopamine),
     avg_goal_focus |-> Round3(avg_goal),
     size |-> size]
\* lines 225-230, for the members `data` of one cluster
Profile(es, signals_list, data) ==
    ProfileOf(CountField(es, data, "mode"), CountField(es, data, "exe"),
              AvgSignal(signals_list, data, "cognitive_load"),
              AvgSignal(signals_list, data, "dopamine_score"),
              AvgSignal(signals_list, data, "goal_score"),
              Len(data))
Labeled(es, signals_list, cluster_entries) ==
    [i \in 1..Len(cluster_entries) |->
        [k |-> cluster_entries[i].k,
         v |-> Profile(es, signals_list, cluster_entries[i].v)]]

label_clusters(labels, es, signals_list) ==
    Labeled(es, signals_list,
            ClusterEntries(labels, Min(Len(labels), Min(Len(es), Len(signals_list)))))

(***************************************************************************)
(* The batch pipeline as daily_report.py runs it: analyze_behaviors, then  *)
(* forecast_next_hour and build_digital_twin with that analysis.           *)
(***************************************************************************)
\* 09:50 and 10:00
Times == {590, 600}

Observation(a, ts) ==
    [ts |-> ts, title |-> a.title, exe |-> a.exe, url |-> a.url,
     uia_labels |-> a.uia_labels, mode |-> a.mode, embedding |-> None]
Observations == {Observation(a, ts) : a \in Activities, ts \in Times}

\* The batches: in time order, as the input contract has them.
Batches ==
    UNION {{b \in [1..n -> Observations] :
               \A i \in 1..(n - 1) : b[i].ts <= b[i + 1].ts} : n \in 0..MaxLen}

StoreIdle == file = Missing /\ history = <<>> /\ origin = Missing /\ pid = 0
ConcIdle == wpc = <<>> /\ wstate = <<>> /\ wentry = <<>> /\ woff = <<>> /\ seen = <<>>
CallIdle == call = NoResult /\ result = NoResult
BatchIdle ==
    /\ entries = <<>>
    /\ backends = [hdbscan |-> "missing", dbscan |-> "missing", kmeans |-> "missing"]
    /\ analysis = NoResult
    /\ forecast = NoResult
    /\ twin = NoResult
    /\ earlier = NoResult

\* The backends of the batches that go through the whole pipeline: none
\* installed (the fallback clusters), hdbscan installed (any labels, noise
\* included), only KMeans working (any labels without noise).
PipelineBackends == {
    [hdbscan |-> "missing", dbscan |-> "missing", kmeans |-> "missing"],
    [hdbscan |-> "ok", dbscan |-> "missing", kmeans |-> "missing"],
    [hdbscan |-> "missing", dbscan |-> "raises", kmeans |-> "ok"] }

Init ==
    /\ entries \in Batches
    /\ backends \in (IF entries = <<>> THEN Backends ELSE PipelineBackends)
    /\ analysis = NoResult
    /\ forecast = NoResult
    /\ twin = NoResult
    /\ earlier = NoResult
    /\ StoreIdle
    /\ ConcIdle
    /\ CallIdle

\* A variant of lines 276-283 that derives the signals only together with a
\* fresh embedding: an entry that carries one gets the signals of no text.
SignalsListWhenBuilt(es) ==
    [i \in 1..Len(es) |->
        IF HasEmbedding(es[i])
        THEN SignalsOf([mode |-> "", exe |-> ""], <<>>)
        ELSE BuildEmbedding(es[i]).signals]
\* lines 276-283: signals.append(sig), one per entry, embedding attached or not
SignalsList(es) == [i \in 1..Len(es) |-> BuildEmbedding(es[i]).signals]
WithClusters(an, clusters) ==
    [labels |-> an.labels, algorithm |-> an.algorithm, tried |-> an.tried,
     raised |-> an.raised, clusters |-> clusters]
\* lines 289 and 297: labeled_clusters = label_clusters(...) if labels else {}
Profiled(r, signals) ==
    [entries |-> r.entries,
     analysis |-> WithClusters(r.analysis,
                      IF r.analysis.labels # <<>>
                      THEN label_clusters(r.analysis.labels, r.entries, signals)
                      ELSE <<>>)]

\* the call returns r: the batch with its embeddings attached, and the analysis
Returned(r) ==
    /\ entries' = r.entries
    /\ analysis' = r.analysis

AnalyzeBehaviors ==
    /\ analysis = NoResult
    /\ \E ext \in ExtLabels(backends, Len(entries)) :
          \E r \in {analyze_behaviors(entries, backends, ext)} :
              Returned(Profiled(r, SignalsList(entries)))
    /\ UNCHANGED <<backends, earlier, forecast, twin, storeVars, concVars, callVars>>

ForecastNextHour ==
    /\ analysis # NoResult
    /\ ~analysis.raised
    /\ forecast = NoResult
    /\ forecast' = forecast_next_hour(entries, analysis)
    /\ entries' = MemoizeAll(entries)
    /\ UNCHANGED <<backends, earlier, analysis, twin, storeVars, concVars, callVars>>

BuildDigitalTwin ==
    /\ analysis # NoResult
    /\ ~analysis.raised
    /\ twin = NoResult
    /\ twin' = build_digital_twin(entries, analysis, forecast)
    /\ entries' = MemoizeAll(entries)
    /\ UNCHANGED <<backends, earlier, analysis, forecast, storeVars, concVars, callVars>>

Next == AnalyzeBehaviors \/ ForecastNextHour \/ BuildDigitalTwin

Spec == Init /\ [][Next]_vars

(***************************************************************************)
(* The clustering engine alone, under every combination of backends.       *)
(***************************************************************************)
MaxClusterLen == 2

ClusterBatches == {b \in Batches : Len(b) <= MaxClusterLen}

InitCluster ==
    /\ entries \in ClusterBatches
    /\ backends \in Backends
    /\ analysis = NoResult
    /\ forecast = NoResult
    /\ twin = NoResult
    /\ earlier = NoResult
    /\ StoreIdle
    /\ ConcIdle
    /\ CallIdle

\* lines 274-287: the embeddings of the batch and cluster_embeddings on them
ClusterEmbeddings ==
    /\ analysis = NoResult
    /\ \E ext \in ExtLabels(backends, Len(entries)) :
          Returned(analyze_behaviors(entries, backends, ext))
    /\ UNCHANGED <<backends, earlier, forecast, twin, storeVars, concVars, callVars>>

NextCluster == ClusterEmbeddings

\* A call that was made runs on: one thread, every loop over a finite list.
SpecCluster == InitCluster /\ [][NextCluster]_vars /\ WF_vars(ClusterEmbeddings)

(***************************************************************************)
(* The batch pipeline on a batch that is not in time order: some           *)
(* observation is earlier than the one before it. No optional backend is   *)
(* installed.                                                              *)
(***************************************************************************)
InitUnordered ==
    /\ entries \in UNION {{b \in [1..n -> Observations] :
                               \E i \in 1..(n - 1) : b[i].ts > b[i + 1].ts} :
                           n \in 2..MaxLen}
    /\ backends = [hdbscan |-> "missing", dbscan |-> "missing", kmeans |-> "missing"]
    /\ analysis = NoResult
    /\ forecast = NoResult
    /\ twin = NoResult
    /\ earlier = NoResult
    /\ StoreIdle
    /\ ConcIdle
    /\ CallIdle

SpecUnordered == InitUnordered /\ [][Next]_vars

(***************************************************************************)
(* The pipeline run twice on the same list, in the order of daily_report.py *)
(* (analysis, forecast, twin with that forecast). An installed backend is   *)
(* a function of the embeddings it is given (KMeans is called with          *)
(* random_state=42): on the same embeddings it returns the same labels.     *)
(***************************************************************************)
MaxRerunLen == 2

InitRerun ==
    /\ entries \in {b \in Batches : Len(b) <= MaxRerunLen}
    /\ backends \in PipelineBackends
    /\ analysis = NoResult
    /\ forecast = NoResult
    /\ twin = NoResult
    /\ earlier = NoResult
    /\ StoreIdle
    /\ ConcIdle
    /\ CallIdle

\* the labels the backend may return in this run
ExtLabelsAgain(b, embeddings) ==
    IF earlier # NoResult /\ embeddings = earlier.embeddings
          /\ earlier.analysis.algorithm \in {"hdbscan", "dbscan"} \cup
                 {KMeansName(k) : k \in 2..6}
    THEN {earlier.analysis.labels}
    ELSE ExtLabels(b, Len(embeddings))

Analyze ==
    /\ analysis = NoResult
    /\ \E ext \in ExtLabelsAgain(backends, Embeddings(MemoizeAll(entries))) :
          \E r \in {analyze_behaviors(entries, backends, ext)} :
              Returned(Profiled(r, SignalsList(entries)))
    /\ UNCHANGED <<backends, earlier, forecast, twin, storeVars, concVars, callVars>>

TwinWithForecast == forecast # NoResult /\ BuildDigitalTwin

\* the caller keeps the results and starts over on the same list
RunAgain ==
    /\ earlier = NoResult
    /\ analysis # NoResult /\ forecast # NoResult /\ twin # NoResult
    /\ earlier' = [analysis |-> analysis, forecast |-> forecast, twin |-> twin,
                   embeddings |-> Embeddings(entries)]
    /\ analysis' = NoResult
    /\ forecast' = NoResult
    /\ twin' = NoResult
    /\ UNCHANGED <<entries, backends, storeVars, concVars, callVars>>

NextRerun == Analyze \/ ForecastNextHour \/ TwinWithForecast \/ RunAgain

SpecRerun == InitRerun /\ [][NextRerun]_vars

(***************************************************************************)
(* derive_signals and label_clusters called on their own, on arguments     *)
(* the pipeline of the model does not produce: observations without text,  *)
(* clusters of up to MaxMembers members with chosen signals and modes.     *)
(***************************************************************************)
MaxMembers == 4

\* An observation without any text, the activities of the pipeline, and
\* observations that have only a title, only a program, or only a mode.
NoText == [title |-> <<>>, exe |-> "", url |-> <<>>, uia_labels |-> <<>>, mode |-> ""]
SignalActivities ==
    Activities \cup
    {NoText,
     [NoText EXCEPT !.title = <<"debug", "code">>],
     [NoText EXCEPT !.exe = "chrome.exe"],
     [NoText EXCEPT !.mode = "work"],
     [NoText EXCEPT !.uia_labels = <<"inbox">>]}
SignalCalls == {[fn |-> "derive_signals", activity |-> a] : a \in SignalActivities}

\* cognitive_load, dopamine_score, goal_score of the members
SignalValues == {
    [cognitive_load |-> R(3, 4), dopamine_score |-> RZero,   goal_score |-> R(3, 4)],
    [cognitive_load |-> R(1, 4), dopamine_score |-> R(3, 4), goal_score |-> RZero],
    [cognitive_load |-> R(1, 4), dopamine_score |-> RZero,   goal_score |-> R(3, 4)],
    [cognitive_load |-> R(1, 4), dopamine_score |-> RZero,   goal_score |-> RZero],
    [cognitive_load |-> R(3, 4), dopamine_score |-> R(3, 4), goal_score |-> R(3, 4)] }
ModeList == <<"work", "browsing", "unknown", "chat", "mail", "idle">>
\* the modes of n members: all the same, all different, three different
\* ones, or all different with "game" first
ModePatterns == {"same", "distinct", "three", "game"}
ModeOf(pattern, i) ==
    CASE pattern = "same"     -> "work"
      [] pattern = "distinct" -> ModeList[i]
      [] pattern = "three"    -> ModeList[Min(i, 3)]
      [] pattern = "game"     -> IF i = 1 THEN "game" ELSE ModeList[i]
Members(pattern, n) == [i \in 1..n |-> [mode |-> ModeOf(pattern, i), exe |-> "app.exe"]]
\* the labels of n members: one cluster, two clusters in turn, or one
\* cluster and the last member noise
LabelPatterns(n) ==
    {[i \in 1..n |-> 0], [i \in 1..n |-> i % 2],
     [i \in 1..n |-> IF i = n THEN NOISE ELSE 0]}
LabelCall(labels, pattern, signals_list) ==
    [fn |-> "label_clusters", labels |-> labels,
     entries |-> Members(pattern, Len(labels)), signals_list |-> signals_list]

InitCalls ==
    /\ BatchIdle
    /\ StoreIdle
    /\ ConcIdle
    /\ result = NoResult
    /\ \/ call \in SignalCalls
       \/ \E n \in 0..MaxMembers :
             \E l \in LabelPatterns(n), pattern \in ModePatterns,
                sl \in [1..n -> SignalValues] :
                 call = LabelCall(l, pattern, sl)

DeriveSignals ==
    /\ result = NoResult
    /\ call.fn = "derive_signals"
    /\ result' = [value |-> derive_signals(call.activity)]
    /\ UNCHANGED <<call, batchVars, storeVars, concVars>>

LabelClusters ==
    /\ result = NoResult
    /\ call.fn = "label_clusters"
    /\ result' = [value |-> label_clusters(call.labels, call.entries,
                                           call.signals_list)]
    /\ UNCHANGED <<call, batchVars, storeVars, concVars>>

NextCalls == DeriveSignals \/ LabelClusters

SpecCalls == InitCalls /\ [][NextCalls]_vars

(***************************************************************************)
(* build_digital_twin from line 211 on, called on features the three       *)
(* activities of the pipeline do not produce: observations without a       *)
(* program, scores on the thresholds of the recency prior, one to ten      *)
(* minutes between observations, a forecast given or not.                  *)
(***************************************************************************)
MaxFeatures == 3

\* what _prepare_features reads from an observation and its signals
FeatureKinds == {
    [dopamine_score |-> R(3, 4), goal_score |-> RZero,    exe |-> "chrome.exe"],
    [dopamine_score |-> R(3, 4), goal_score |-> RZero,    exe |-> ""],
    [dopamine_score |-> RZero,   goal_score |-> R(3, 4),  exe |-> "Code.exe"],
    [dopamine_score |-> R(1, 4), goal_score |-> RZero,    exe |-> "mail.exe"],
    [dopamine_score |-> RZero,   goal_score |-> R(3, 20), exe |-> "mail.exe"] }
\* minutes between two observations
Gaps == {1, 2, 10}
FeatureOfKind(kind, cluster, ts, session_len) ==
    Feature([ts |-> ts, exe |-> kind.exe, title |-> <<>>], cluster, session_len,
            [dopamine_score |-> kind.dopamine_score, goal_score |-> kind.goal_score,
             cognitive_load |-> R(1, 5), emotional_tone |-> R(1, 2)])
FeaturesOf(kinds, labels, gap) ==
    [i \in 1..Len(kinds) |->
        FeatureOfKind(kinds[i], ClusterOf(labels, i), 590 + (i - 1) * gap,
                      IF i > 1 THEN gap ELSE 0)]
\* the forecast argument: None, the forecast of an empty batch, a forecast
\* that predicts cluster 0
GivenForecasts ==
    {NoResult,
     forecast_next_hour(<<>>, NoResult),
     [forecast_next_hour(<<>>, NoResult) EXCEPT
         !.distribution = <<[k |-> 0, v |-> ROne]>>,
         !.predicted_cluster = Some(0)]}
TwinCall(kinds, labels, gap, fc) ==
    [fn |-> "build_digital_twin", features |-> FeaturesOf(kinds, labels, gap),
     labels |-> labels, forecast |-> fc]

InitTwin ==
    /\ BatchIdle
    /\ StoreIdle
    /\ ConcIdle
    /\ result = NoResult
    /\ \E n \in 1..MaxFeatures :
          \E kinds \in [1..n -> FeatureKinds], l \in LabelPatterns(n),
             gap \in Gaps, fc \in GivenForecasts :
              call = TwinCall(kinds, l, gap, fc)

\* lines 211-278 of behavior_digital_twin.py on the features of line 210
TwinOfGivenFeatures ==
    /\ result = NoResult
    /\ call.fn = "build_digital_twin"
    /\ result' = [value |-> TwinOfFeatures(call.features, call.labels, call.forecast)]
    /\ UNCHANGED <<call, batchVars, storeVars, concVars>>

NextTwin == TwinOfGivenFeatures

SpecTwin == InitTwin /\ [][NextTwin]_vars

(***************************************************************************)
(* The batch pipeline on observations that carry an "embedding" field when *)
(* they come in (daily_report.py, line 107, passes on what the log line    *)
(* has): none, an empty list, a list of the wrong length, the embedding of *)
(* the observation itself, or one of the right length that was built from  *)
(* another text. No optional backend is installed. `call` keeps the batch  *)
(* as it was handed in. The caller either lets analyze_behaviors run on    *)
(* the batch first, or brings the analysis of a copy of the batch, so that *)
(* a _prepare_features is the first to go over the observations.           *)
(***************************************************************************)
MaxMemoLen == 2

\* a list of three floats
ShortList == [size |-> 3, vec |-> <<[k |-> 1, v |-> ROne]>>, norm2 |-> ROne]
EmptyList == [size |-> 0, vec |-> <<>>, norm2 |-> RZero]
Attached == {None, Some(EmptyList), Some(ShortList)}
                \cup {Some(Built[a].embedding) : a \in Activities}
Logged(a, embedding) ==
    [ts |-> 590, title |-> a.title, exe |-> a.exe, url |-> a.url,
     uia_labels |-> a.uia_labels, mode |-> a.mode, embedding |-> embedding]

\* the analysis of a copy of the batch
AnalysisOfCopy(es, b) ==
    Profiled(analyze_behaviors(es, b, CHOOSE ext \in ExtLabels(b, Len(es)) : TRUE),
             SignalsList(es)).analysis

InitMemo ==
    /\ \E n \in 1..MaxMemoLen :
          \E as \in [1..n -> Activities], embeddings \in [1..n -> Attached] :
              entries = [i \in 1..n |-> Logged(as[i], embeddings[i])]
    /\ backends = [hdbscan |-> "missing", dbscan |-> "missing", kmeans |-> "missing"]
    /\ \E on_copy \in BOOLEAN :
          /\ call = [fn |-> "pipeline", entries |-> entries, on_copy |-> on_copy]
          /\ analysis = IF on_copy THEN AnalysisOfCopy(entries, backends) ELSE NoResult
    /\ result = NoResult
    /\ forecast = NoResult
    /\ twin = NoResult
    /\ earlier = NoResult
    /\ StoreIdle
    /\ ConcIdle

SpecMemo == InitMemo /\ [][Next]_vars

(***************************************************************************)
(* The state store under one producer: write_log calls                     *)
(* update_state_with_entry once per observation, one call after the other. *)
(***************************************************************************)

\* The state file before the first call: missing; not openable for reading;
\* text that is no JSON ({"events": 0 cut off after its first member); the
\* JSON texts [] and null and {}.
StoreFiles ==
    <<Missing, Unreadable, Regular(SubSeq(JsonDump(DefaultState), 1, 2)),
      Regular(JsonDump(JsonArray)), Regular(JsonDump(JsonNull)),
      Regular(JsonDump(Obj(<<>>)))>>

StoreEntry(a, ts) ==
    [ts |-> ts, title |-> a.title, exe |-> a.exe, url |-> a.url,
     uia_labels |-> a.uia_labels, mode |-> a.mode]
\* browsing at 09:50, work at 09:50 and at 10:00, and one entry whose ts is
\* no ISO string
StoreEntries ==
    {StoreEntry(a, Iso(t)) : a \in {x \in Activities : x.mode = "work"}, t \in Times}
        \cup {StoreEntry(a, Iso(590)) : a \in {x \in Activities : x.mode = "browsing"}}
        \cup {StoreEntry(a, NotIso) : a \in {x \in Activities : x.mode = "unknown"}}
\* datetime.now().hour
NowHours == {11}

\* A state file that is missing, or as a first call left it.
ConcFiles ==
    <<Missing,
      update_state_with_entry(
          CHOOSE e \in StoreEntries : e.ts.iso /\ Hour(e.ts.minute) = 10,
          Missing, 11, "ok").file>>

InitStore ==
    /\ \E i \in 1..Len(StoreFiles) : file = StoreFiles[i] /\ origin = StoreFiles[i]
    /\ history = <<>>
    /\ pid = 0
    /\ BatchIdle
    /\ CallIdle
    /\ ConcIdle

\* the call ended with r
Recorded(entry, now, io, r) ==
    /\ file' = r.file
    /\ history' = Append(history, [entry |-> entry, hour |-> HourOf(entry, now),
                                   io |-> io, raised |-> r.raised, pid |-> pid])

\* A variant that keeps the state in the process and reads the file at no
\* later call: the first call after a restart starts from the default state.
StoreCallFromMemory(Es, Ios) ==
    /\ Len(history) < MaxUpdates
    /\ \E entry \in Es, now \in NowHours, io \in Ios :
          Recorded(entry, now, io,
                   update_state_with_entry(
                       entry,
                       IF history # <<>> /\ history[Len(history)].pid # pid
                       THEN Written(file, <<>>) ELSE file,
                       now, io))
    /\ UNCHANGED <<origin, pid, batchVars, concVars, callVars>>

\* one call, its entry among Es and what the file system does among Ios
StoreCall(Es, Ios) ==
    /\ Len(history) < MaxUpdates
    /\ \E entry \in Es, now \in NowHours, io \in Ios :
          Recorded(entry, now, io, update_state_with_entry(entry, file, now, io))
    /\ UNCHANGED <<origin, pid, batchVars, concVars, callVars>>

UpdateStateWithEntry == StoreCall(StoreEntries, IoOutcomes)

NextStore == UpdateStateWithEntry

SpecStore == InitStore /\ [][NextStore]_vars

(***************************************************************************)
(* The producer process restarted between calls. A process keeps nothing   *)
(* of the twin state between two calls (the module has no global for it),  *)
(* so a restart changes the process number only.                           *)
(***************************************************************************)
MaxRestarts == 1

InitRestart ==
    /\ \E i \in 1..Len(ConcFiles) : file = ConcFiles[i] /\ origin = ConcFiles[i]
    /\ history = <<>>
    /\ pid = 0
    /\ BatchIdle
    /\ CallIdle
    /\ ConcIdle

\* a call with a parseable ts; the write goes through or open fails
UpdateInProcess ==
    StoreCall({e \in StoreEntries : e.ts.iso}, {"ok", "open_fails"})

\* the process ends after a call and a new one starts
Restart ==
    /\ pid < MaxRestarts
    /\ history # <<>>
    /\ history[Len(history)].pid = pid
    /\ pid' = pid + 1
    /\ UNCHANGED <<file, history, origin, batchVars, concVars, callVars>>

NextRestart == UpdateInProcess \/ Restart

SpecRestart == InitRestart /\ [][NextRestart]_vars

(***************************************************************************)
(* Two calls of update_state_with_entry on the same state file that        *)
(* overlap, and a reader of the file. The function takes no lock and       *)
(* writes the file in place, so the steps of a call are its file           *)
(* operations: the read of line 288, the open of line 319 that creates or  *)
(* truncates, and the writes that carry the buffered text to the file,     *)
(* the last of them when the with block closes the handle. The runs are    *)
(* those in which every file operation succeeds.                           *)
(***************************************************************************)
Writers == {1, 2}
MaxReads == 1        \* reads of the state file by the reader

ConcEntries == {e \in StoreEntries : e.ts.iso /\ Hour(e.ts.minute) = 9}

InitConc ==
    /\ \E i \in 1..Len(ConcFiles) : file = ConcFiles[i] /\ origin = ConcFiles[i]
    /\ history = <<>>
    /\ pid = 0
    /\ wentry \in [Writers -> ConcEntries]
    /\ wpc = [w \in Writers |-> "load"]
    /\ wstate = [w \in Writers |-> NoResult]
    /\ woff = [w \in Writers |-> 0]
    /\ seen = <<>>
    /\ BatchIdle
    /\ CallIdle

\* the tokens `tokens` written at offset `off` of a file with text `text`;
\* an offset past the end leaves a hole of NUL
WriteAt(text, off, tokens) ==
    [i \in 1..Max(Len(text), off + Len(tokens)) |->
        IF i > off /\ i <= off + Len(tokens) THEN tokens[i - off]
        ELSE IF i <= Len(text) THEN text[i]
        ELSE Tok("NUL")]

\* lines 287-316: the file is read in one go, the rest is local to the call
Load(w) ==
    /\ wpc[w] = "load"
    /\ \E now \in NowHours :
          /\ wstate' = [wstate EXCEPT ![w] =
                            Updated(LoadState(file), wentry[w], now).state]
          /\ wpc' = [wpc EXCEPT ![w] =
                         IF Updated(LoadState(file), wentry[w], now).raised
                         THEN "raised" ELSE "open"]
    /\ UNCHANGED <<file, history, origin, pid, wentry, woff, seen, batchVars, callVars>>

\* line 319: open(state_path, "w") creates the file or truncates it
Open(w) ==
    /\ wpc[w] = "open"
    /\ file' = Written(file, <<>>)
    /\ woff' = [woff EXCEPT ![w] = 0]
    /\ wpc' = [wpc EXCEPT ![w] = "write"]
    /\ UNCHANGED <<history, origin, pid, wstate, wentry, seen, batchVars, callVars>>

\* line 320: the buffer of the handle fills before the text is complete, and
\* its content, the first k tokens, goes to the file
Flush(w) ==
    /\ wpc[w] = "write"
    /\ woff[w] = 0
    /\ \E k \in 1..(Len(JsonDump(wstate[w])) - 1) :
          /\ file' = Written(file, WriteAt(file.text, 0,
                                           SubSeq(JsonDump(wstate[w]), 1, k)))
          /\ woff' = [woff EXCEPT ![w] = k]
    /\ UNCHANGED <<history, origin, pid, wpc, wstate, wentry, seen, batchVars, callVars>>

\* lines 319-320: leaving the with block writes what is left of the text at
\* the offset of the handle and closes it
Close(w) ==
    /\ wpc[w] = "write"
    /\ file' = Written(file, WriteAt(file.text, woff[w],
                                     SubSeq(JsonDump(wstate[w]), woff[w] + 1,
                                            Len(JsonDump(wstate[w])))))
    /\ woff' = [woff EXCEPT ![w] = Len(JsonDump(wstate[w]))]
    /\ wpc' = [wpc EXCEPT ![w] = "done"]
    /\ UNCHANGED <<history, origin, pid, wstate, wentry, seen, batchVars, callVars>>

\* a reader of the state file takes the file as it is at that moment
ReadStateFile ==
    /\ Len(seen) < MaxReads
    /\ seen' = Append(seen, file)
    /\ UNCHANGED <<file, history, origin, pid, wpc, wstate, wentry, woff, batchVars, callVars>>

NextConc ==
    \/ \E w \in Writers : Load(w)
    \/ \E w \in Writers : Open(w)
    \/ \E w \in Writers : Flush(w)
    \/ \E w \in Writers : Close(w)
    \/ ReadStateFile

SpecConc == InitConc /\ [][NextConc]_vars

(***************************************************************************)
(* Properties of the batch pipeline                                        *)
(***************************************************************************)
Range(s) == {s[i] : i \in 1..Len(s)}

\* C1: the transition matrix has no row for the noise label -1, no row has
\* -1 as a destination, and the probabilities of every row sum to 1.
C1_TransitionMatrix ==
    twin # NoResult =>
        \A i \in 1..Len(twin.transition_matrix) :
            LET row == twin.transition_matrix[i]
            IN  /\ row.k # NOISE
                /\ ~DHas(row.v, NOISE)
                /\ SumR(row.v) = ROne

\* A twin built from labels with noise whose matrix still has a row.
C1_Witness ==
    /\ twin # NoResult
    /\ NOISE \in Range(analysis.labels)
    /\ twin.transition_matrix # <<>>

\* C2: neither the short-horizon forecast of the twin nor the hour-ahead
\* forecast gives the noise label -1 a positive probability or predicts it.
C2_NoiseNeverForecast ==
    /\ twin # NoResult =>
          /\ ~DHas(twin.short_term.distribution, NOISE)
          /\ twin.short_term.predicted_cluster # Some(NOISE)
    /\ forecast # NoResult =>
          /\ ~DHas(forecast.distribution, NOISE)
          /\ forecast.predicted_cluster # Some(NOISE)

\* p is a key of d whose probability no other key exceeds
IsArgMax(p, d) ==
    /\ p # None
    /\ DHas(d, p[1])
    /\ \A j \in 1..Len(d) : RLe(d[j].v, DGet(d, p[1], RZero))

\* C3: for a non-empty batch the distributions of both forecasts sum to 1
\* and the predicted cluster is a key of maximal probability.
C3_ForecastDistribution ==
    entries # <<>> =>
        /\ twin # NoResult =>
              /\ SumR(twin.short_term.distribution) = ROne
              /\ IsArgMax(twin.short_term.predicted_cluster,
                          twin.short_term.distribution)
        /\ forecast # NoResult =>
              /\ SumR(forecast.distribution) = ROne
              /\ IsArgMax(forecast.predicted_cluster, forecast.distribution)

\* Both forecasts made, each over more than one state.
C3_Witness ==
    /\ twin # NoResult
    /\ forecast # NoResult
    /\ Len(twin.short_term.distribution) >= 2
    /\ Len(forecast.distribution) >= 2

AllMissing(b) == b.hdbscan = "missing" /\ b.dbscan = "missing" /\ b.kmeans = "missing"

\* C4: with no backend installed, clustering a non-empty batch (one
\* embedding included) ends without an exception, with one label per input
\* and the algorithm "simple_kmeans".
C4_Result ==
    (entries # <<>> /\ AllMissing(backends) /\ analysis # NoResult) =>
        /\ ~analysis.raised
        /\ Len(analysis.labels) = Len(entries)
        /\ analysis.algorithm = "simple_kmeans"
C4_FallbackClusters ==
    /\ []C4_Result
    /\ (entries # <<>> /\ AllMissing(backends)) ~> (analysis # NoResult)

\* The fallback has clustered a batch of exactly one embedding.
C4_Witness ==
    /\ Len(entries) = 1
    /\ AllMissing(backends)
    /\ analysis # NoResult
    /\ analysis.algorithm = "simple_kmeans"

\* The chain of line 176-215 and what each member does under backends b
Chain == <<"hdbscan", "dbscan", "kmeans", "simple_kmeans">>
Works(b, name) ==
    CASE name = "hdbscan" -> b.hdbscan = "ok"
      [] name = "dbscan" -> b.dbscan = "ok"
      [] name = "kmeans" -> b.kmeans = "ok"
      [] name = "simple_kmeans" -> TRUE
AlgorithmOf(name, n) == IF name = "kmeans" THEN KMeansName(KMeansK(n)) ELSE name

\* C5: for a non-empty batch the backends are tried in the order hdbscan,
\* DBSCAN, KMeans, fallback; one is tried only when all before it failed,
\* missing or throwing alike; the result names the first that worked; the
\* call always returns.
C5_Result ==
    (entries # <<>> /\ analysis # NoResult) =>
        LET tried == analysis.tried
            n == Len(tried)
        IN  /\ ~analysis.raised
            /\ n >= 1
            /\ tried = SubSeq(Chain, 1, n)
            /\ \A i \in 1..(n - 1) : ~Works(backends, tried[i])
            /\ Works(backends, tried[n])
            /\ analysis.algorithm = AlgorithmOf(tried[n], Len(entries))
C5_BackendOrder ==
    /\ []C5_Result
    /\ (entries # <<>>) ~> (analysis # NoResult)

\* hdbscan throws, DBSCAN is missing, KMeans works and gives the result.
C5_Witness ==
    /\ entries # <<>>
    /\ backends = [hdbscan |-> "raises", dbscan |-> "missing", kmeans |-> "ok"]
    /\ analysis # NoResult
    /\ analysis.algorithm = "kmeans_2"
    /\ analysis.tried = <<"hdbscan", "dbscan", "kmeans">>

\* C6: with zero observations, whatever the backends: the clustering has no
\* labels and the algorithm "none"; the hour-ahead forecast has an empty
\* distribution, no prediction, productivity 0, distraction 0 and the
\* algorithm "baseline"; the twin has an empty matrix, an empty short-term
\* forecast without prediction and with algorithm "none", and no insights.
C6_EmptyBatch ==
    entries = <<>> =>
        /\ analysis = NoResult => ENABLED AnalyzeBehaviors
        /\ analysis # NoResult =>
              /\ ~analysis.raised
              /\ analysis.labels = <<>>
              /\ analysis.algorithm = "none"
              /\ forecast = NoResult => ENABLED ForecastNextHour
              /\ twin = NoResult => ENABLED BuildDigitalTwin
        /\ forecast # NoResult =>
              /\ forecast.distribution = <<>>
              /\ forecast.predicted_cluster = None
              /\ forecast.productivity = RZero
              /\ forecast.distraction = RZero
              /\ forecast.algorithm = "baseline"
        /\ twin # NoResult =>
              /\ twin.transition_matrix = <<>>
              /\ twin.short_term.distribution = <<>>
              /\ twin.short_term.predicted_cluster = None
              /\ twin.short_term.algorithm = "none"
              /\ twin.insights = <<>>

\* All three results for the empty batch, with every backend working.
C6_Witness ==
    /\ entries = <<>>
    /\ backends = [hdbscan |-> "ok", dbscan |-> "ok", kmeans |-> "ok"]
    /\ analysis # NoResult
    /\ forecast # NoResult
    /\ twin # NoResult

(***************************************************************************)
(* Properties of the state store                                           *)
(***************************************************************************)
ModeAt(i) == history[i].entry.mode
StoreModes == {e.mode : e \in StoreEntries}

\* The first call found no state file; every call so far had a parseable
\* timestamp and a populated mode, and its write went through.
FromMissing ==
    /\ origin = Missing
    /\ history # <<>>
    /\ \A i \in 1..Len(history) :
          /\ history[i].entry.ts.iso
          /\ history[i].entry.mode # ""
          /\ history[i].io = "ok"
          /\ ~history[i].raised

\* the members of the object in the state file
PersistedItems == JsonLoad(file.text).items

RECURSIVE BucketCounts(_)
BucketCounts(hp) == IF hp = <<>> THEN 0 ELSE hp[1].v.count + BucketCounts(Tail(hp))

\* C7: starting without a state file, after n calls with modes m1..mn the file
\* holds an object with events = n; hourly_productivity has, for every hour,
\* as count the number of calls whose timestamp has that hour (n in all);
\* last_mode is mn; and mode_transitions has under "a->b" the number of
\* places i with m_i = a and m_(i+1) = b, n - 1 in all.
C7_CountersAccumulate ==
    FromMissing =>
        /\ file.kind = "file"
        /\ IsObjectText(file.text)
        /\ DGet(PersistedItems, "events", 0) = Len(history)
        /\ \A h \in 0..23 :
              DGet(DGet(PersistedItems, "hourly_productivity", <<>>), ToString(h),
                   [sum |-> RZero, count |-> 0]).count
                  = Cardinality({i \in 1..Len(history) : history[i].hour = h})
        /\ BucketCounts(DGet(PersistedItems, "hourly_productivity", <<>>)) = Len(history)
        /\ DGet(PersistedItems, "last_mode", None) = Some(ModeAt(Len(history)))
        /\ \A a \in StoreModes, b \in StoreModes :
              DGet(DGet(PersistedItems, "mode_transitions", <<>>), a \o "->" \o b, 0)
                  = Cardinality({i \in 1..(Len(history) - 1) :
                                    ModeAt(i) = a /\ ModeAt(i + 1) = b})
        /\ SumInt(DGet(PersistedItems, "mode_transitions", <<>>)) = Len(history) - 1

\* Three calls from no file: browsing at 9, then work twice, the last at 10.
C7_Witness ==
    /\ FromMissing
    /\ Len(history) = 3
    /\ ModeAt(1) = "browsing" /\ history[1].hour = 9
    /\ ModeAt(2) = "work"
    /\ ModeAt(3) = "work" /\ history[3].hour = 10
    /\ DGet(PersistedItems, "events", 0) = 3

\* The file cannot be used as the state: it is missing, or cannot be read, or
\* its text is not that of a JSON object.
Unusable(f) == f.kind # "file" \/ ~IsObjectText(f.text)

\* C8: when the state file is missing, unreadable, malformed JSON or JSON of
\* another shape than an object, the first call raises no error and, its
\* write going through, leaves a state object with events = 1 in the file.
C8_UnusableFileStartsFresh ==
    (Len(history) = 1 /\ Unusable(origin) /\ history[1].io = "ok") =>
        /\ ~history[1].raised
        /\ IsObjectText(file.text)
        /\ DGet(PersistedItems, "events", 0) = 1

\* a complete text that a call has begun or finished to write
CompleteNew(f) ==
    /\ f.kind = "file"
    /\ \E w \in Writers : wpc[w] \in {"write", "done"} /\ f.text = JsonDump(wstate[w])

\* C9: whatever the reader got from the state file while calls were running
\* is the file as it was before them or the complete text of a new state,
\* never an empty, cut off or partly written file.
C9_ReaderSeesCompleteState ==
    \A i \in 1..Len(seen) : seen[i] = origin \/ CompleteNew(seen[i])

\* the file after two calls, one after the other, on file f
Sequential(f, first, second, now) ==
    update_state_with_entry(second,
        update_state_with_entry(first, f, now, "ok").file, now, "ok").file

\* C10: when both overlapping calls have returned, the file is what the two
\* calls leave when one runs after the other, in one of the two orders:
\* events two higher, both hour counts added, no update lost.
C10_UpdatesSerialized ==
    (\A w \in Writers : wpc[w] = "done") =>
        \E now \in NowHours :
            \/ file = Sequential(origin, wentry[1], wentry[2], now)
            \/ file = Sequential(origin, wentry[2], wentry[1], now)

\* the last call raised nothing and its write went through
LastCallDone ==
    /\ history # <<>>
    /\ ~history[Len(history)].raised
    /\ history[Len(history)].io = "ok"

HourKeys == {ToString(h) : h \in 0..23}
TransitionKeys == {a \o "->" \o b : a \in StoreModes, b \in StoreModes}

\* C11: after every call that went through, whatever the file was before
\* (missing, no JSON, an object), the file holds an object with the keys
\* events (a natural number), hourly_productivity (keys among "0".."23",
\* values with sum and count), last_mode (a string or null) and
\* mode_transitions (keys "a->b", values positive integers).
C11_StateLayout ==
    LastCallDone =>
        /\ IsObjectText(file.text)
        /\ DHas(PersistedItems, "events")
        /\ DGet(PersistedItems, "events", 0) \in Nat
        /\ DHas(PersistedItems, "hourly_productivity")
        /\ \A i \in 1..Len(DGet(PersistedItems, "hourly_productivity", <<>>)) :
              /\ DGet(PersistedItems, "hourly_productivity", <<>>)[i].k \in HourKeys
              /\ DOMAIN DGet(PersistedItems, "hourly_productivity", <<>>)[i].v
                     = {"sum", "count"}
              /\ DGet(PersistedItems, "hourly_productivity", <<>>)[i].v.count \in Nat
              /\ DGet(PersistedItems, "hourly_productivity", <<>>)[i].v.sum.d > 0
        /\ DHas(PersistedItems, "last_mode")
        /\ \/ DGet(PersistedItems, "last_mode", None) = None
           \/ /\ Len(DGet(PersistedItems, "last_mode", None)) = 1
              /\ DGet(PersistedItems, "last_mode", None)[1] \in StoreModes
        /\ DHas(PersistedItems, "mode_transitions")
        /\ \A i \in 1..Len(DGet(PersistedItems, "mode_transitions", <<>>)) :
              /\ DGet(PersistedItems, "mode_transitions", <<>>)[i].k \in TransitionKeys
              /\ DGet(PersistedItems, "mode_transitions", <<>>)[i].v \in Nat \ {0}

\* Two calls that went through on a file that held no JSON: the second one
\* counted a transition.
C11_Witness ==
    /\ LastCallDone
    /\ Len(history) = 2
    /\ ~IsObjectText(origin.text) /\ origin.kind = "file"
    /\ history[1].io = "ok" /\ ~history[1].raised
    /\ DGet(PersistedItems, "mode_transitions", <<>>) # <<>>

\* the file after the first n calls of the history, made on file f one after
\* the other by a process that is never restarted
RECURSIVE Replayed(_, _)
Replayed(f, n) ==
    IF n = 0 THEN f
    ELSE update_state_with_entry(history[n].entry, Replayed(f, n - 1),
                                 history[n].hour, history[n].io).file

\* the last two calls went through, and the process was restarted in between
AcrossRestart ==
    /\ Len(history) >= 2
    /\ LastCallDone
    /\ history[Len(history) - 1].io = "ok"
    /\ history[Len(history) - 1].pid # history[Len(history)].pid

C13_UnorderedFailsFast ==
    (\E i \in 1..(Len(entries) - 1) : entries[i].ts > entries[i + 1].ts)
        => twin = NoResult /\ forecast = NoResult

\* C14: a call whose entry has a ts that cannot be parsed counts it under no
\* hour: the buckets of hourly_productivity are as they were before the call.
C14_UnparseableNotCounted ==
    (LastCallDone /\ ~history[Len(history)].entry.ts.iso) =>
        DGet(PersistedItems, "hourly_productivity", <<>>)
            = DGet(LoadState(Replayed(origin, Len(history) - 1)).items,
                   "hourly_productivity", <<>>)

\* C15: the pipeline run a second time on the same list, which now carries
\* the embeddings the first run attached, returns what the first run
\* returned: the same labels and cluster profiles, the same forecast, and
\* the same twin with its transition matrix.
C15_RerunIdentical ==
    earlier # NoResult =>
        /\ analysis # NoResult => analysis = earlier.analysis
        /\ forecast # NoResult => forecast = earlier.forecast
        /\ twin # NoResult => twin = earlier.twin
C15_Witness ==
    /\ earlier # NoResult
    /\ twin # NoResult
    /\ Len(analysis.clusters) = 2
    /\ twin.transition_matrix # <<>>
    /\ \A i \in 1..Len(entries) : HasEmbedding(entries[i])

\* the batch is one text observed twice, 10 minutes apart, no backend is
\* installed, and build_digital_twin has returned
TwiceTheSame ==
    /\ Len(entries) = 2
    /\ ActivityOf(entries[1]) = ActivityOf(entries[2])
    /\ entries[2].ts - entries[1].ts = 10
    /\ AllMissing(backends)
    /\ analysis # NoResult
    /\ twin # NoResult
OneCluster ==
    /\ analysis.labels = <<0, 0>>
    /\ twin.transitions_raw = <<[k |-> 0, v |-> <<[k |-> 0, v |-> 1]>>]>>
    /\ twin.short_term.predicted_cluster = Some(0)
\* dopamine_score - goal_score of the text
BiasOf(feature) == RSub(feature.dopamine_score, feature.goal_score)
Unbiased(feature) ==
    RLe(BiasOf(feature), R(1, 4)) /\ RLe(R(0 - 15, 100), BiasOf(feature))

\* C16 as stated: one text observed twice, 10 minutes apart, with no backend
\* installed, gives labels 0 and 0, exactly one raw transition 0->0, and a
\* short-term forecast of cluster 0 with probability 1.0, whatever the text.
C16_SameTextCertain ==
    TwiceTheSame =>
        /\ OneCluster
        /\ twin.short_term.distribution = <<[k |-> 0, v |-> ROne]>>

\* C16, amended: one text observed twice, 10 minutes apart, with no backend
\* installed, gives labels 0 and 0, exactly one raw transition 0->0, and a
\* short-term forecast that predicts cluster 0; cluster 0 has probability
\* 1.0 when dopamine_score - goal_score of the text is within [-0.15, 0.25],
\* and less than 1.0 otherwise, the rest being on dopamine_prone (above
\* 0.25) or goal_prone (below -0.15).
C16_SameTextOneCluster ==
    TwiceTheSame =>
        /\ OneCluster
        /\ Unbiased(twin.features[2]) =>
               twin.short_term.distribution = <<[k |-> 0, v |-> ROne]>>
        /\ ~Unbiased(twin.features[2]) =>
               /\ RLt(DGet(twin.short_term.distribution, 0, RZero), ROne)
               /\ DKeys(twin.short_term.distribution) =
                      {0, IF RLt(R(1, 4), BiasOf(twin.features[2]))
                          THEN dopamine_prone ELSE goal_prone}
C16_Witness ==
    /\ TwiceTheSame
    /\ RLt(R(1, 4), BiasOf(twin.features[2]))
    /\ DHas(twin.short_term.distribution, dopamine_prone)

\* the switches of a label sequence: the consecutive pairs of two different
\* clusters (pairs with the noise label left out, as in the transition counts)
Switches(labels) ==
    Cardinality({i \in 1..(Len(labels) - 1) :
                    /\ labels[i] # labels[i + 1]
                    /\ labels[i] # NOISE
                    /\ labels[i + 1] # NOISE})

\* C17: the stress estimate of the twin is the number of switches divided by
\* the minutes between the first and the last observation (0 minutes count
\* as 1), to three decimals, with the band "hoch" above 0.8, "mittel" above
\* 0.4 and "niedrig" otherwise.
C17_SwitchRate ==
    (twin # NoResult /\ entries # <<>>) =>
        twin.stress = Estimate(Rate(Switches(analysis.labels),
                                    OrOne(entries[Len(entries)].ts - entries[1].ts)))

(***************************************************************************)
(* Properties of derive_signals, build_embedding and label_clusters.       *)
(***************************************************************************)
\* derive_signals has returned from a call on an observation without text
CalledWithoutText ==
    result # NoResult /\ call.fn = "derive_signals" /\ call.activity = NoText

\* C18 as stated: derive_signals on an observation whose text fields are
\* all empty returns dopamine_score 0, goal_score 0, cognitive_load 0 and
\* emotional_tone 0.5.
C18_NoTextAllZero ==
    CalledWithoutText =>
        /\ result.value.dopamine_score = RZero
        /\ result.value.goal_score = RZero
        /\ result.value.cognitive_load = RZero
        /\ result.value.emotional_tone = R(1, 2)

\* C18, amended: derive_signals on an observation whose text fields are all
\* empty returns dopamine_score 0, goal_score 0, emotional_tone 0.5 and
\* cognitive_load 0.2, the base value of 0.2 + 0.15 * hits with no hit.
C18_NoTextBaseValues ==
    CalledWithoutText =>
        /\ result.value.tokens = <<>>
        /\ result.value.dopamine_score = RZero
        /\ result.value.goal_score = RZero
        /\ result.value.cognitive_load = R(1, 5)
        /\ result.value.emotional_tone = R(1, 2)
C18_Witness == CalledWithoutText

SameText(a, b) ==
    /\ a.title = b.title
    /\ a.exe = b.exe
    /\ a.url = b.url
    /\ a.uia_labels = b.uia_labels
    /\ a.mode = b.mode

Labelled == result # NoResult /\ call.fn = "label_clusters"
\* the members of cluster k in the arguments of the call
MembersOfCluster(k) == {i \in 1..Len(call.labels) : call.labels[i] = k}
RECURSIVE SumOver(_, _, _)
SumOver(k, key, n) ==
    IF n = 0 THEN RZero
    ELSE RAdd(IF call.labels[n] = k THEN call.signals_list[n][key] ELSE RZero,
              SumOver(k, key, n - 1))
MeanOf(k, key) ==
    RDiv(SumOver(k, key, Len(call.labels)), RInt(Cardinality(MembersOfCluster(k))))
\* which of the five rules cluster k matches, in the order of precedence
Matches(k) ==
    << RLt(R(3, 5), MeanOf(k, "cognitive_load"))
           /\ RLe(MeanOf(k, "dopamine_score"), MeanOf(k, "goal_score")),
       RLt(R(1, 2), MeanOf(k, "dopamine_score"))
           /\ RLt(MeanOf(k, "goal_score"), R(3, 10)),
       \E i \in MembersOfCluster(k) : call.entries[i].mode = "game",
       Cardinality({call.entries[i].mode : i \in MembersOfCluster(k)}) > 3
           /\ RLt(MeanOf(k, "cognitive_load"), R(1, 2)),
       RLt(R(1, 2), MeanOf(k, "goal_score"))
           /\ RLt(MeanOf(k, "dopamine_score"), R(2, 5)) >>
Archetypes ==
    <<"deep_work", "dopamine_scrolling", "gaming_focus", "micro_tasking", "research_mode">>
FirstMatch(m) ==
    IF \E i \in 1..5 : m[i]
    THEN Archetypes[CHOOSE i \in 1..5 : m[i] /\ \A j \in 1..(i - 1) : ~m[j]]
    ELSE "behavior_cluster"

\* C20: label_clusters returns one profile per label; its archetype is that
\* of the first rule the cluster matches, in the order deep_work,
\* dopamine_scrolling, gaming_focus, micro_tasking, research_mode, and
\* behavior_cluster when it matches none; its size is the number of members,
\* and the sizes add up to the number of labels.
C20_ArchetypePrecedence ==
    Labelled =>
        /\ DKeys(result.value) = Range(call.labels)
        /\ \A i \in 1..Len(result.value) :
               /\ result.value[i].v.label = FirstMatch(Matches(result.value[i].k))
               /\ result.value[i].v.size =
                      Cardinality(MembersOfCluster(result.value[i].k))
        /\ SumInt([i \in 1..Len(result.value) |->
                      [k |-> i, v |-> result.value[i].v.size]]) = Len(call.labels)
\* a cluster that matches dopamine_scrolling, gaming_focus and micro_tasking
C20_Witness ==
    /\ Labelled
    /\ Len(result.value) = 1
    /\ result.value[1].k = 0
    /\ Matches(0)[2] /\ Matches(0)[3] /\ Matches(0)[4]
    /\ result.value[1].v.label = "dopamine_scrolling"
    /\ result.value[1].v.size = 4

(***************************************************************************)
(* Properties of the twin built from given features.                       *)
(***************************************************************************)
\* the call on the given features has returned
TwinBuilt == result # NoResult /\ call.fn = "build_digital_twin"
InsightOrder ==
    <<"short_term", "hour_ahead", "peaks", "dips", "trigger", "stress", "alignment">>
\* the two alignment sentences are one item of the list
ItemOf(kind) == IF kind \in {"alignment_risk", "alignment_ok"} THEN "alignment" ELSE kind
PlaceOf(kind) == CHOOSE p \in 1..Len(InsightOrder) : InsightOrder[p] = ItemOf(kind)
HasItem(item) ==
    \E i \in 1..Len(result.value.insights) : ItemOf(result.value.insights[i]) = item

LastGiven == call.features[Len(call.features)]
GivenBias == RSub(LastGiven.dopamine_score, LastGiven.goal_score)
\* the mass a synthetic state gets before the distribution is normalized
SyntheticMass ==
    IF RLt(R(1, 4), GivenBias) THEN GivenBias
    ELSE IF RLt(GivenBias, R(0 - 15, 100)) THEN RNeg(GivenBias)
    ELSE RZero
\* the whole mass before normalizing: the row of the last cluster (1 if it
\* has one), 0.35 for every observation in the hour of the last one, and
\* the synthetic mass
MassBeforeNormalizing ==
    RAdd(RAdd(IF DHas(result.value.transition_matrix, LastGiven.cluster)
              THEN ROne ELSE RZero,
              RMul(R(35, 100),
                   RInt(Cardinality({i \in 1..Len(call.features) :
                           Hour(call.features[i].ts) = Hour(LastGiven.ts)})))),
         SyntheticMass)

\* C22: in the short-term forecast dopamine_prone is in the distribution
\* exactly when d - g > 0.25 of the last observation, with mass d - g before
\* normalizing; goal_prone exactly when d - g < -0.15, with mass g - d;
\* never both, and neither when -0.15 <= d - g <= 0.25.
C22_SyntheticStates ==
    TwinBuilt =>
        /\ DHas(result.value.short_term.distribution, dopamine_prone)
               <=> RLt(R(1, 4), GivenBias)
        /\ DHas(result.value.short_term.distribution, goal_prone)
               <=> RLt(GivenBias, R(0 - 15, 100))
        /\ ~(/\ DHas(result.value.short_term.distribution, dopamine_prone)
             /\ DHas(result.value.short_term.distribution, goal_prone))
        /\ RAdd(DGet(result.value.short_term.distribution, dopamine_prone, RZero),
                DGet(result.value.short_term.distribution, goal_prone, RZero))
               = RDiv(SyntheticMass, MassBeforeNormalizing)
\* three observations, the last with d - g = -0.75: goal_prone has mass
C22_Witness ==
    /\ TwinBuilt
    /\ Len(call.features) = 3
    /\ GivenBias = R(0 - 3, 4)
    /\ DHas(result.value.short_term.distribution, goal_prone)
    /\ DHas(result.value.short_term.distribution, 0)

(***************************************************************************)
(* Properties of the baseline forecast of forecast_next_hour.              *)
(***************************************************************************)
\* a forecast of a non-empty batch is there
Forecasted == forecast # NoResult /\ entries # <<>>
\* the label of observation i as the forecaster sees it, and the last one
LabelAt(i) == ClusterOf(analysis.labels, i)
LastLabel == LabelAt(Len(entries))
LastHour == Hour(entries[Len(entries)].ts)
\* the consecutive pairs last cluster -> c
PairsFromLast(c) ==
    Cardinality({i \in 1..(Len(entries) - 1) : LabelAt(i) = LastLabel /\ LabelAt(i + 1) = c})
\* the observations labelled c, among those from place `from` on
Labelled_c(c, from) == Cardinality({i \in from..Len(entries) : LabelAt(i) = c})
\* the observations after the first that are labelled c and fall in `hour`
InHour(c, hour) ==
    Cardinality({i \in 2..Len(entries) : LabelAt(i) = c /\ Hour(entries[i].ts) = hour})
\* pairs + 0.25 * frequency + 0.5 * hour term
MassOf(pairs, frequency, hourly) ==
    RAdd(RInt(pairs), RAdd(RMul(R(1, 4), RInt(frequency)), RMul(R(1, 2), RInt(hourly))))
ForecastLabels == {LabelAt(i) : i \in 1..Len(entries)}
RECURSIVE TotalOf(_, _)
TotalOf(mass, cs) ==
    IF cs = {} THEN RZero
    ELSE RAdd(mass[CHOOSE c \in cs : TRUE],
              TotalOf(mass, cs \ {CHOOSE c \in cs : TRUE}))
\* the distribution of the forecast is `mass` normalized (all the mass on
\* the last cluster when there is none)
DistributionIs(mass) ==
    IF TotalOf(mass, ForecastLabels) = RZero
    THEN forecast.distribution = <<[k |-> LastLabel, v |-> ROne]>>
    ELSE \A c \in ForecastLabels :
             DGet(forecast.distribution, c, RZero)
                 = RDiv(mass[c], TotalOf(mass, ForecastLabels))

\* C23: in the baseline forecast the hour-of-day term (weight 0.5) is the
\* cluster frequency of the hour that follows the hour of the last
\* observation, not of the hour of the last observation itself.
C23_UpcomingHour ==
    Forecasted =>
        DistributionIs([c \in ForecastLabels |->
            MassOf(PairsFromLast(c), Labelled_c(c, 2), InHour(c, LastHour + 1))])

\* C24: in the baseline forecast the mass of cluster c before normalizing is
\* the number of consecutive pairs last cluster -> c, plus 0.25 times the
\* number of observations of the whole batch labelled c, the first
\* observation included, plus the hour-of-day term.
C24_GlobalFrequency ==
    Forecasted =>
        DistributionIs([c \in ForecastLabels |->
            MassOf(PairsFromLast(c), Labelled_c(c, 1), InHour(c, LastHour))])

\* C25: forecast_next_hour on a non-empty batch goes through the sequence
\* model, the TCN and prophet, none of which produces a result, and ends in
\* the baseline: the algorithm is "baseline", predicted_cluster is not None
\* and the distribution is not empty, whatever the size of the batch; for a
\* single observation the distribution is {its label: 1.0}.
C25_EndsInBaseline ==
    Forecasted =>
        /\ forecast.algorithm = "baseline"
        /\ forecast.predicted_cluster # None
        /\ forecast.distribution # <<>>
        /\ Len(entries) = 1 =>
               /\ forecast.distribution = <<[k |-> LastLabel, v |-> ROne]>>
               /\ forecast.predicted_cluster = Some(LastLabel)
\* the forecast of a single observation that the clustering left as noise
C25_Witness ==
    /\ Forecasted
    /\ Len(entries) = 1
    /\ forecast.algorithm = "baseline"
    /\ forecast.distribution = <<[k |-> NOISE, v |-> ROne]>>

(***************************************************************************)
(* Properties of the two-centroid fallback of cluster_embeddings.          *)
(***************************************************************************)
\* the fallback has clustered the batch
FellBack == analysis # NoResult /\ analysis.algorithm = "simple_kmeans"
EmbeddingAt(i) == BuildEmbedding(entries[i]).embedding
\* the second centroid: embeddings[:2] of a single embedding has only one
SecondSeed == Min(2, Len(entries))
\* whether the embedding of activity a is at most as far from that of c1 as
\* from that of c2, for the activities of the model
NotFarther ==
    [a \in Activities |-> [c1 \in Activities |-> [c2 \in Activities |->
        DistLe(Built[a].embedding, Built[c1].embedding, Built[c2].embedding)]]]
\* embedding i is at most as far from embedding c1 as from embedding c2
AtMostAsFar(i, c1, c2) ==
    NotFarther[ActivityOf(entries[i])][ActivityOf(entries[c1])][ActivityOf(entries[c2])]

\* C26: the two-centroid fallback takes the first two embeddings as
\* centroids and labels each embedding with the index of the centroid at
\* the smaller squared Euclidean distance, 0 on a tie: every label is 0 or
\* 1, never -1, the first embedding has label 0, the second has label 1
\* exactly when it differs from the first, and the labels are a function of
\* the embeddings of the batch alone.
C26_TwoCentroids ==
    (FellBack /\ entries # <<>>) =>
        /\ Len(analysis.labels) = Len(entries)
        /\ \A i \in 1..Len(entries) :
               /\ analysis.labels[i] \in {0, 1}
               /\ entries[i].embedding = Some(EmbeddingAt(i))
               /\ analysis.labels[i] = 0 <=> AtMostAsFar(i, 1, SecondSeed)
        /\ analysis.labels[1] = 0
        /\ Len(entries) >= 2 =>
               (analysis.labels[2] = 1 <=> EmbeddingAt(2) # EmbeddingAt(1))
\* three different embeddings: the seeds get 0 and 1, and the third, which
\* is neither seed, goes to the nearer of the two
C26_Witness ==
    /\ FellBack
    /\ Len(entries) = 3
    /\ EmbeddingAt(1) # EmbeddingAt(2)
    /\ EmbeddingAt(3) \notin {EmbeddingAt(1), EmbeddingAt(2)}
    /\ analysis.labels[1] = 0
    /\ analysis.labels[2] = 1

(***************************************************************************)
(* The switch count of the stress estimate.                                *)
(***************************************************************************)
\* the consecutive pairs of the given labels whose two labels differ (a
\* pair with the noise label is no pair of clusters and is left out)
DifferingPairs ==
    Cardinality({i \in 1..(Len(call.labels) - 1) :
                    /\ call.labels[i] # call.labels[i + 1]
                    /\ NOISE \notin {call.labels[i], call.labels[i + 1]}})
GivenMinutes == call.features[Len(call.features)].ts - call.features[1].ts

\* C27: the switch count that the stress estimate divides by the elapsed
\* minutes is the number of consecutive pairs of observations whose cluster
\* labels differ; observations that stay in one cluster add no switch.
C27_SwitchCount ==
    TwinBuilt =>
        result.value.stress = Estimate(Rate(DifferingPairs, OrOne(GivenMinutes)))

(***************************************************************************)
(* Properties of the memoization of embeddings.                            *)
(***************************************************************************)
\* the batch as it was handed to the pipeline
HandedIn == call.entries
\* the embedding build_embedding gives for the observation
Fresh(entry) == Some(BuildEmbedding(entry).embedding)
Size768(entry) == entry.embedding # None /\ entry.embedding[1].size = 768
\* a function of the pipeline has gone over the observations
GoneOver ==
    \/ analysis # NoResult /\ ~call.on_copy
    \/ forecast # NoResult
    \/ twin # NoResult

\* C28: the memoization only fills in what is missing. An embedding of
\* length 768 that an observation came with is never replaced; an
\* observation that came with none, or with one of another length, has the
\* one it came with until a function has gone over it and the freshly built
\* one after; no other field of an observation changes; once the pipeline
\* has run, every observation carries an embedding of length 768.
C28_CacheFill ==
    call # NoResult =>
        /\ Len(entries) = Len(HandedIn)
        /\ \A i \in 1..Len(entries) :
              /\ [entries[i] EXCEPT !.embedding = HandedIn[i].embedding] = HandedIn[i]
              /\ Size768(HandedIn[i]) => entries[i].embedding = HandedIn[i].embedding
              /\ ~Size768(HandedIn[i]) =>
                     entries[i].embedding =
                         IF GoneOver THEN Fresh(HandedIn[i]) ELSE HandedIn[i].embedding
              /\ GoneOver => Size768(entries[i])
\* _prepare_features of the twin was the first to go over two observations:
\* one that came with an embedding built from another text and keeps it,
\* one that came with a list of the wrong length and now has its own
C28_Witness ==
    /\ call # NoResult
    /\ call.on_copy
    /\ forecast = NoResult /\ twin # NoResult
    /\ Len(entries) = 2
    /\ Size768(HandedIn[1])
    /\ HandedIn[1].embedding # Fresh(HandedIn[1])
    /\ entries[1].embedding = HandedIn[1].embedding
    /\ HandedIn[2].embedding = Some(ShortList)
    /\ entries[2].embedding = Fresh(HandedIn[2])

(***************************************************************************)
(* The last cluster in the short-term forecast of the twin.                *)
(***************************************************************************)
\* the hour-of-day table of the hour of the last observation
TableOfLastHour ==
    DGet(result.value.hourly_cluster_distribution, Hour(LastGiven.ts), <<>>)
\* the share of the last cluster in its own row of the matrix, if it has one
StaysInLast ==
    DGet(DGet(result.value.transition_matrix, LastGiven.cluster, <<>>),
         LastGiven.cluster, RZero)
\* the observations of the last cluster in the hour of the last observation
LastInLastHour ==
    Cardinality({i \in 1..Len(call.features) :
                    /\ call.features[i].cluster = LastGiven.cluster
                    /\ Hour(call.features[i].ts) = Hour(LastGiven.ts)})

\* C29: in build_digital_twin the hour-of-day table of the hour of the last
\* observation has the label of the last observation with a count of at
\* least 1, so that label has a positive probability in the short-term
\* forecast: 0.35 per such observation plus its share of the matrix row,
\* over the whole mass. The mass is therefore never empty and the forecast
\* never falls back to "all mass on the last cluster".
C29_LastClusterHasMass ==
    TwinBuilt =>
        /\ DGet(TableOfLastHour, LastGiven.cluster, 0) = LastInLastHour
        /\ LastInLastHour >= 1
        /\ RLt(RZero, MassBeforeNormalizing)
        /\ RLt(RZero, DGet(result.value.short_term.distribution,
                           LastGiven.cluster, RZero))
        /\ DGet(result.value.short_term.distribution, LastGiven.cluster, RZero)
               = RDiv(RAdd(StaysInLast, RMul(R(35, 100), RInt(LastInLastHour))),
                      MassBeforeNormalizing)
\* one observation, no matrix row and no synthetic state: all the mass of
\* the forecast is the 0.35 of the hour table
C29_Witness ==
    /\ TwinBuilt
    /\ Len(call.features) = 1
    /\ result.value.transition_matrix = <<>>
    /\ SyntheticMass = RZero
    /\ TableOfLastHour = <<[k |-> LastGiven.cluster, v |-> 1]>>
    /\ result.value.short_term.distribution = <<[k |-> LastGiven.cluster, v |-> ROne]>>

(***************************************************************************)
(* A persist of the state store that fails.                                *)
(***************************************************************************)
\* the calls so far whose write went through
Successes == Cardinality({i \in 1..Len(history) : history[i].io = "ok"})

\* C30: a persist that fails is swallowed and costs the observation of that
\* call only: starting without a state file, no call raises, and once a
\* call has gone through the file holds a readable state whose events is
\* the number of calls that went through, after a failed persist as well
\* (the state persisted before stays) and after the next call that goes
\* through (it goes on from the counters persisted before).
C30_FailedPersistKeepsState ==
    (origin = Missing /\ history # <<>>) =>
        /\ \A i \in 1..Len(history) : ~history[i].raised
        /\ Successes >= 1 =>
               /\ file.kind = "file"
               /\ IsObjectText(file.text)
               /\ DGet(PersistedItems, "events", 0) = Successes

====
